---- MODULE Spec2Model ----
(***************************************************************************)
(* Model of the khadyota vector database: the VectorDB facade              *)
(* (src/src/vector_db.rs), the IVF partitioner (src/src/indexing/ivf.rs),  *)
(* the PQ codec (src/src/quantization) and the k-means trainer.            *)
(*                                                                         *)
(* Numbers.  Vector components are small integers.  f32 arithmetic is      *)
(* modelled by exact arithmetic: a centroid coordinate is an integer in    *)
(* units of 1/Scale (Scale is a common multiple of the size of every       *)
(* cluster of unequal vectors that the inputs produce, so every mean is    *)
(* exact; the clusters of the 256-vector inputs hold equal vectors, or two *)
(* values in equal number), and a distance is a "score" record             *)
(* [nan, num, den] whose rational key num/den is a strictly increasing     *)
(* function of the f32 value the code computes (value^2 for the Euclidean  *)
(* and PQ distances, the value for the dot product, -cos^2 for the cosine  *)
(* distance of non-negative vectors).  nan marks the f32 NaN.  The one     *)
(* f32 rounding modelled is the underflow of a squared difference, in the  *)
(* runs of the stand-alone PQ codec on numbers of magnitude 2^-76.         *)
(***************************************************************************)
EXTENDS Integers, Sequences, FiniteSets, TLC

\* ---------------------------------------------------------------- bounds
MaxVectors == 3        \* most vectors of a small database / a small training set
MaxK == 2              \* largest k passed to search
MaxProbeArg == 3       \* largest argument passed to set_num_probe
MaxSaved == 2          \* most vectors handed to save_vectors
MaxExtra == 1          \* most vectors inserted on top of the 256 a PQ build needs

\* ------------------------------------------------------ program constants
max_iterations == 100  \* kmeans(.., 100, 0.001)
ToleranceDen == 1000   \* tolerance 0.001 = 1 / ToleranceDen
num_centroids == 256   \* PQCodec::train: let num_centroids = 256
code_values == 256     \* precompute_distance_table: for code in 0..256

\* ------------------------------------------------------------------ state
VARIABLE
    unit           \* a library function called on its own: arguments, result

\* ---------------------------------------------------------------- helpers
Min(a, b) == IF a <= b THEN a ELSE b
Abs(a) == IF a < 0 THEN 0 - a ELSE a

RECURSIVE Gcd(_, _)
Gcd(a, b) == IF b = 0 THEN a ELSE Gcd(b, a % b)

RECURSIVE LcmUpTo(_)
LcmUpTo(n) == IF n <= 1 THEN 1
              ELSE LET l == LcmUpTo(n - 1) IN (l * n) \div Gcd(l, n)

\* Centroid coordinates are integers in units of 1/Scale.
Scale == LcmUpTo(MaxVectors)

\* The sequence f[1], .., f[n] with every element computed (a function
\* written [i \in 1..n |-> e] is otherwise computed anew at every use).
Vec(f) == SubSeq(f, 1, Len(f))

RECURSIVE SumRange(_, _, _)
\* f[lo] + ... + f[hi], summed by halves
SumRange(f, lo, hi) ==
    IF lo > hi THEN 0
    ELSE IF lo = hi THEN f[lo]
    ELSE SumRange(f, lo, (lo + hi) \div 2) + SumRange(f, ((lo + hi) \div 2) + 1, hi)

\* f[1] + ... + f[n]
SumTo(f, n) == SumRange(f, 1, n)

SumSeq(s) == SumTo(s, Len(s))

\* A raw vector in centroid units.
ScaleVec(v) == Vec([j \in 1..Len(v) |-> Scale * v[j]])

\* The magnitude of the numbers of a run of the stand-alone codec.  In a
\* run of ordinary magnitude a number stands for itself.  In a run of tiny
\* magnitude it counts multiples of 2^-76 (f32 bits 0x19800000), so that a
\* centroid coordinate counts multiples of 2^-76 / Scale; differences of
\* such numbers are exact in f32, their squares are not.
Tiny == "tiny" \in DOMAIN unit /\ unit.tiny

\* The squares of a tiny difference d are multiples of 2^-152 / Scale^2, and
\* the f32 nearest to one is a multiple of 2^-149, the least positive f32:
\* TinySquare of them make one 2^-149.
TinySquare == 8 * Scale * Scale

\* a / b rounded to the nearest integer, a half to the even one (the IEEE
\* default rounding), for a >= 0 and b > 0
RoundHalfEven(a, b) ==
    LET q == a \div b
        r == a % b
    IN IF 2 * r < b THEN q
       ELSE IF 2 * r > b THEN q + 1
       ELSE IF q % 2 = 0 THEN q ELSE q + 1

\* (x - y).powi(2) for the difference d = x - y: exact at ordinary
\* magnitude; at tiny magnitude the product underflows and is rounded to
\* a count of 2^-149, to 0 when it is at most 2^-150.
f32_square(d) == IF Tiny THEN RoundHalfEven(d * d, TinySquare) ELSE d * d

\* What one unit of a squared distance to a centroid is made of: Scale^2
\* squares of a centroid unit at ordinary magnitude; at tiny magnitude the
\* squared distance counts 2^-149.
SquareUnits == IF Tiny THEN 1 ELSE Scale * Scale

\* sum of (x - y)^2 over a.iter().zip(b.iter())
euclidean_distance_squared(a, b) ==
    LET n == Min(Len(a), Len(b))
    IN SumTo(Vec([j \in 1..n |-> f32_square(a[j] - b[j])]), n)

\* ---------------------------------------------------------------- k-means
\* The random source (thread_rng) is an input: rng.u is the stream of
\* uniform index draws (slice.choose), rng.f the stream of f32 draws in
\* [0, 1) (rand::random), each a fraction <<a, b>> with a < b.  A stream is
\* read cyclically.
Draw(stream, pos) == stream[(pos % Len(stream)) + 1]

\* vectors.choose(&mut rng): the element the pos-th uniform draw selects.
choose(vectors, rng, pos) == vectors[(Draw(rng.u, pos) % Len(vectors)) + 1]

\* The sentinel for f32::INFINITY in prev_inertia.
Infinity == 0 - 1

\* (index, distance) of the nearest centroid; min_by returns the first
\* minimum.  Indices are 0-based as in the source, dist is the squared
\* distance (the key of the Euclidean distance compared by the code).
find_nearest_centroid(vector, centroids) ==
    LET d == Vec([i \in 1..Len(centroids) |->
                 euclidean_distance_squared(vector, centroids[i])])
        least == CHOOSE x \in {d[i] : i \in 1..Len(d)} :
                    \A j \in 1..Len(d) : x <= d[j]
        best == CHOOSE i \in 1..Len(d) :
                    /\ d[i] = least
                    /\ \A j \in 1..(i - 1) : d[j] /= least
    IN [idx |-> best - 1, dist |-> d[best]]

RECURSIVE WeightedScan(_, _, _, _, _, _)
\* The loop `threshold -= dist; if threshold <= 0.0` over the vectors
\* lo..hi, acc being the distances subtracted before lo: hit is the first
\* vector at which the threshold is used up (0 when it stays positive to
\* hi), acc the distances subtracted up to it.  The range is scanned by
\* halves, the second only when the first has no hit.
WeightedScan(w, lo, hi, acc, total, frac) ==
    IF lo = hi
    THEN [hit |-> IF frac[1] * total <= frac[2] * (acc + w[lo]) THEN lo ELSE 0,
          acc |-> acc + w[lo]]
    ELSE CHOOSE r \in
           {IF left.hit /= 0 THEN left
            ELSE WeightedScan(w, ((lo + hi) \div 2) + 1, hi, left.acc, total, frac) :
               left \in {WeightedScan(w, lo, (lo + hi) \div 2, acc, total, frac)}} : TRUE

\* The weighted draw of kmeans_plus_plus_init over the squared distances w
\* of the vectors to their nearest centroid: threshold = random * total,
\* then the scan; 0 when the loop pushes nothing.
WeightedPick(w, frac) ==
    IF Len(w) = 0 THEN 0
    ELSE WeightedScan(w, 1, Len(w), 0, SumTo(w, Len(w)), frac).hit

\* dist * dist of find_nearest_centroid(v, &centroids) for every vector.
NearestSquared(vectors, centroids) ==
    Vec([i \in 1..Len(vectors) |->
        find_nearest_centroid(ScaleVec(vectors[i]), centroids).dist])

\* One round of the loop `for _ in 1..k` of kmeans_plus_plus_init, the
\* j-th.  st.centroids are the centroids pushed so far and st.w is
\* NearestSquared(vectors, st.centroids); after a push w is brought up to
\* date with the pushed centroid alone (the nearest of the longer list is
\* the nearer of the previous nearest and the new centroid).
KppRound(vectors, st, j, rng) ==
    CHOOSE r \in
      {IF i = 0 THEN st
       ELSE CHOOSE r2 \in
              {[centroids |-> Append(st.centroids, c),
                w |-> Vec([n \in 1..Len(vectors) |->
                          Min(st.w[n], euclidean_distance_squared(
                                           ScaleVec(vectors[n]), c))])] :
                  c \in {ScaleVec(vectors[i])}} : TRUE :
          i \in {WeightedPick(st.w, Draw(rng.f, j - 1))}} : TRUE

RECURSIVE KppRounds(_, _, _, _, _)
\* count successive rounds of that loop, from the j-th: the first half of
\* them, then the rest.
KppRounds(vectors, st, j, count, rng) ==
    IF count <= 0 THEN st
    ELSE IF count = 1 THEN KppRound(vectors, st, j, rng)
    ELSE CHOOSE r \in
           {KppRounds(vectors, mid, j + (count \div 2), count - (count \div 2), rng) :
               mid \in {KppRounds(vectors, st, j, count \div 2, rng)}} : TRUE

\* kmeans_plus_plus_init: one uniform draw, then k - 1 weighted draws.
kmeans_plus_plus_init(vectors, k, rng) ==
    LET first == <<ScaleVec(choose(vectors, rng, 0))>>
    IN KppRounds(vectors,
                 [centroids |-> first, w |-> NearestSquared(vectors, first)],
                 1, k - 1, rng).centroids

\* an inertia that measures every vector against the first centroid
compute_inertia_to_first(vectors, centroids, assignments) ==
    SumTo(Vec([i \in 1..Len(vectors) |->
              euclidean_distance_squared(ScaleVec(vectors[i]), centroids[1])]),
          Len(vectors))

\* sum of squared distances of each vector to its assigned centroid
compute_inertia(vectors, centroids, assignments) ==
    SumTo(Vec([i \in 1..Len(vectors) |->
              euclidean_distance_squared(ScaleVec(vectors[i]),
                                         centroids[assignments[i] + 1])]),
          Len(vectors))

\* Clusters (0-based) that received no vector.
EmptyClusters(k, assignments) ==
    {c \in 0..(k - 1) : \A i \in 1..Len(assignments) : assignments[i] /= c}

\* an update step that leaves the zero vector in a cluster without members
UpdateCentroids_zero_when_empty(vectors, k, assignments, rng, pos) ==
    LET n == Len(vectors)
        count(c) == Cardinality({i \in 1..n : assignments[i] = c})
        msum(c, j) == SumTo(Vec([i \in 1..n |->
                                IF assignments[i] = c THEN vectors[i][j] ELSE 0]), n)
    IN Vec([c1 \in 1..k |->
           Vec([j \in 1..Len(vectors[1]) |->
               IF count(c1 - 1) = 0 THEN 0
               ELSE (Scale * msum(c1 - 1, j)) \div count(c1 - 1)])])

\* The update step: a cluster with members gets their mean; the clusters
\* without members get, in index order, the vectors of the next uniform
\* draws (the first of them is draw number pos).
UpdateCentroids(vectors, k, assignments, rng, pos) ==
    LET n == Len(vectors)
        empty == EmptyClusters(k, assignments)
        count(c) == Cardinality({i \in 1..n : assignments[i] = c})
        msum(c, j) == SumTo(Vec([i \in 1..n |->
                                IF assignments[i] = c THEN vectors[i][j] ELSE 0]), n)
        rank(c) == Cardinality({e \in empty : e < c})
    IN Vec([c1 \in 1..k |->
           IF (c1 - 1) \in empty
           THEN ScaleVec(choose(vectors, rng, pos + rank(c1 - 1)))
           ELSE Vec([j \in 1..Len(vectors[1]) |->
                    (Scale * msum(c1 - 1, j)) \div count(c1 - 1)])])

KMeansResult(centroids, assignments, vectors) ==
    [panic |-> FALSE, centroids |-> centroids, assignments |-> assignments,
     inertia |-> compute_inertia(vectors, centroids, assignments)]

KMeansPanic ==
    [panic |-> TRUE, centroids |-> <<>>, assignments |-> <<>>, inertia |-> 0]

\* (prev_inertia - inertia).abs() < tolerance for two finite inertias.  At
\* tiny magnitude an inertia is a small count of 2^-149 and the difference
\* of two is below any tolerance the callers pass.
within_tolerance(prev_inertia, inertia) ==
    Tiny \/ Abs(prev_inertia - inertia) * ToleranceDen < Scale * Scale

RECURSIVE Lloyd(_, _, _, _, _, _, _, _, _)
\* The loop `for iteration in 0..max_iterations` of kmeans and the return
\* that follows it.  pos counts the uniform draws made so far.
Lloyd(vectors, k, maxit, centroids, assignments, prev_inertia, iteration, rng, pos) ==
    IF iteration >= maxit
    THEN KMeansResult(centroids, assignments, vectors)
    ELSE LET n == Len(vectors)
             \* the rest of the iteration, once the assignment step has
             \* found the nearest centroid of every vector
             rest(near) ==
                 LET asg == Vec([i \in 1..n |-> near[i].idx])
                     inertia == SumTo(Vec([i \in 1..n |-> near[i].dist]), n)
                 IN IF /\ prev_inertia /= Infinity
                       /\ within_tolerance(prev_inertia, inertia)
                    THEN KMeansResult(centroids, asg, vectors)
                    ELSE IF \E i \in 1..n : asg[i] >= k
                    THEN KMeansPanic    \* counts[cluster] out of bounds (k = 0)
                    ELSE CHOOSE r \in
                           {Lloyd(vectors, k, maxit, nc, asg, inertia, iteration + 1,
                                  rng, pos + Cardinality(EmptyClusters(k, asg))) :
                               nc \in {UpdateCentroids(vectors, k, asg, rng, pos)}} : TRUE
         IN CHOOSE r \in
              {rest(near) :
                  near \in {Vec([i \in 1..n |->
                               find_nearest_centroid(ScaleVec(vectors[i]), centroids)])}} : TRUE

RECURSIVE UpdateSteps(_, _, _, _, _, _, _, _)
\* The update steps the loop of kmeans executes, in order: for each, the
\* assignments it read and the centroids it produced.
UpdateSteps(vectors, k, maxit, centroids, prev_inertia, iteration, rng, pos) ==
    IF iteration >= maxit THEN <<>>
    ELSE LET n == Len(vectors)
             rest(near) ==
                 LET asg == Vec([i \in 1..n |-> near[i].idx])
                     inertia == SumTo(Vec([i \in 1..n |-> near[i].dist]), n)
                 IN IF /\ prev_inertia /= Infinity
                       /\ within_tolerance(prev_inertia, inertia)
                    THEN <<>>
                    ELSE IF \E i \in 1..n : asg[i] >= k
                    THEN <<>>
                    ELSE CHOOSE r \in
                           {<<[assignments |-> asg, centroids |-> nc]>>
                              \o UpdateSteps(vectors, k, maxit, nc, inertia, iteration + 1,
                                             rng, pos + Cardinality(EmptyClusters(k, asg))) :
                               nc \in {UpdateCentroids(vectors, k, asg, rng, pos)}} : TRUE
         IN CHOOSE r \in
              {rest(near) :
                  near \in {Vec([i \in 1..n |->
                               find_nearest_centroid(ScaleVec(vectors[i]), centroids)])}} : TRUE

\* The update steps of kmeans(vectors, k, max_iterations, 0.001).
kmeans_update_steps(vectors, k, maxit, rng) ==
    IF Len(vectors) = 0 \/ k > Len(vectors) THEN <<>>
    ELSE CHOOSE r \in
           {UpdateSteps(vectors, k, maxit, init, Infinity, 0, rng, 1) :
               init \in {kmeans_plus_plus_init(vectors, k, rng)}} : TRUE

\* kmeans(vectors, k, max_iterations, 0.001) under the random source rng.
kmeans(vectors, k, maxit, rng) ==
    IF Len(vectors) = 0 \/ k > Len(vectors)
    THEN KMeansPanic                \* the two assert!s
    ELSE CHOOSE r \in
           {Lloyd(vectors, k, maxit, init, Vec([i \in 1..Len(vectors) |-> 0]),
                  Infinity, 0, rng, 1) :
               init \in {kmeans_plus_plus_init(vectors, k, rng)}} : TRUE

\* ------------------------------------------------------------ scores
\* A distance as the code compares it: partial_cmp on the f32 values is the
\* order of the keys num/den; a NaN compares with nothing.
Score(num, den) == [nan |-> FALSE, num |-> num, den |-> den]
NaN == [nan |-> TRUE, num |-> 0, den |-> 1]

\* a.partial_cmp(b) == Some(Less)
ScoreLess(a, b) == a.num * b.den < b.num * a.den
ScoreEq(a, b) == a.num * b.den = b.num * a.den

\* slice::sort_by(|a, b| a.1.partial_cmp(&b.1).unwrap()) on a sequence of
\* records with a distance field.  The sort is stable: an element goes
\* after every element that is less and after the equal ones that precede
\* it in the input.
sort_by(s) ==
    LET n == Len(s)
        rank == Vec([i \in 1..n |->
                    1 + Cardinality({j \in 1..n :
                          \/ ScoreLess(s[j].distance, s[i].distance)
                          \/ j < i /\ ~ScoreLess(s[i].distance, s[j].distance)})])
    IN Vec([p \in 1..n |-> s[CHOOSE i \in 1..n : rank[i] = p]])

\* The unwrap in the comparator fails as soon as a NaN is compared, which
\* happens when a NaN is among two or more elements.
SortPanics(s) == Len(s) >= 2 /\ \E i \in 1..Len(s) : s[i].distance.nan

\* Vec::truncate(k)
truncate(s, k) == SubSeq(s, 1, Min(k, Len(s)))

\* -------------------------------------------------- distance kernels
dot_product_int(a, b) == SumTo(Vec([j \in 1..Len(a) |-> a[j] * b[j]]), Len(a))

\* sqrt(sum (a - b)^2) on raw vectors: key = the squared distance.
euclidean_distance(a, b) == Score(euclidean_distance_squared(a, b), 1)

\* sum a*b: key = the value.
dot_product(a, b) == Score(dot_product_int(a, b), 1)

\* 1 - dot / (sqrt(norm_a) * sqrt(norm_b)).  A zero norm gives 0/0 = NaN.
\* Otherwise the key is -sign(dot) * dot^2 / (norm_a * norm_b), which grows
\* exactly when the distance grows.
cosine_distance(a, b) ==
    LET dot == dot_product_int(a, b)
        norm_a == dot_product_int(a, a)
        norm_b == dot_product_int(b, b)
    IN IF norm_a = 0 \/ norm_b = 0 THEN NaN
       ELSE Score((IF dot >= 0 THEN 0 - 1 ELSE 1) * dot * dot, norm_a * norm_b)

compute_distance(a, b, metric) ==
    CASE metric = "Cosine" -> cosine_distance(a, b)
      [] metric = "Euclidean" -> euclidean_distance(a, b)
      [] metric = "DotProduct" -> dot_product(a, b)

\* euclidean_distance(vector, centroid) with the centroid in units of
\* 1/Scale: key = squared distance, in units of 1/Scale^2.
CentroidDistance(vector, centroid) ==
    Score(euclidean_distance_squared(ScaleVec(vector), centroid), SquareUnits)

\* ------------------------------------------------------------ IVF index
IVFIndex_new(dimensions, num_clusters, num_probe) ==
    [centroids |-> <<>>,
     inverted_lists |-> Vec([c \in 1..num_clusters |-> <<>>]),
     num_probe |-> num_probe,
     dimensions |-> dimensions]

\* Index (0-based) of the nearest centroid; min_by keeps the first minimum.
find_nearest_cluster(self, vector) ==
    find_nearest_centroid(ScaleVec(vector), self.centroids).idx

\* The sequence 0, 1, .., n-1.
Ids(n) == Vec([i \in 1..n |-> i - 1])

\* posting lists numbering the vectors from 1
AssignLists_from_one(trained, vectors, num_clusters) ==
    LET nearest == Vec([i \in 1..Len(vectors) |->
                       find_nearest_cluster(trained, vectors[i])])
    IN Vec([c \in 1..num_clusters |->
           SelectSeq(Vec([i \in 1..Len(vectors) |-> i]),
                     LAMBDA id : nearest[id] = c - 1)])

\* The posting lists of IVFIndex::build: every id, in id order, in the list
\* of its nearest centroid.
AssignLists(trained, vectors, num_clusters) ==
    LET nearest == Vec([i \in 1..Len(vectors) |->
                       find_nearest_cluster(trained, vectors[i])])
    IN Vec([c \in 1..num_clusters |->
           SelectSeq(Ids(Len(vectors)), LAMBDA id : nearest[id + 1] = c - 1)])

\* IVFIndex::build under the random source rng: [panic, ivf].
IVFIndex_build(self, vectors, num_clusters, rng) ==
    IF Len(vectors) = 0 THEN [panic |-> TRUE, ivf |-> self]
    ELSE CHOOSE out \in
           {IF r.panic THEN [panic |-> TRUE, ivf |-> self]
            ELSE [panic |-> FALSE,
                  ivf |-> [self EXCEPT
                              !.centroids = r.centroids,
                              !.inverted_lists =
                                  AssignLists([self EXCEPT !.centroids = r.centroids],
                                              vectors, num_clusters)]] :
               r \in {kmeans(vectors, num_clusters, max_iterations, rng)}} : TRUE

\* probe taking the first num_probe clusters without sorting them
probe_unsorted(self, query) ==
    Vec([i \in 1..Min(self.num_probe, Len(self.centroids)) |-> i - 1])

\* IVFIndex::probe: ids of the num_probe nearest centroids.
probe(self, query) ==
    LET distances == Vec([i \in 1..Len(self.centroids) |->
                         [id |-> i - 1,
                          distance |-> CentroidDistance(query, self.centroids[i])]])
        sorted == sort_by(distances)
        taken == SubSeq(sorted, 1, Min(self.num_probe, Len(sorted)))
    IN Vec([i \in 1..Len(taken) |-> taken[i].id])

\* get_candidates reading only the posting list of the first cluster given
get_candidates_first_only(self, cluster_ids) ==
    IF Len(cluster_ids) = 0 THEN <<>>
    ELSE self.inverted_lists[cluster_ids[1] + 1]

RECURSIVE get_candidates(_, _)
\* Concatenation of the posting lists of the given clusters, in order.
get_candidates(self, cluster_ids) ==
    IF Len(cluster_ids) = 0 THEN <<>>
    ELSE self.inverted_lists[cluster_ids[1] + 1]
         \o get_candidates(self, Tail(cluster_ids))

set_num_probe(self, num_probe) ==
    [self EXCEPT !.num_probe = Min(num_probe, Len(self.centroids))]

\* slice::sort on cluster sizes: position at which x goes into a sorted prefix
InsertSize(sorted, x) ==
    LET later == {i \in 1..Len(sorted) : x < sorted[i]}
        pos == IF later = {} THEN Len(sorted) + 1
               ELSE CHOOSE i \in later : \A j \in later : i <= j
    IN SubSeq(sorted, 1, pos - 1) \o <<x>> \o SubSeq(sorted, pos, Len(sorted))

RECURSIVE SortSizes(_)
SortSizes(s) ==
    IF Len(s) = 0 THEN <<>>
    ELSE InsertSize(SortSizes(SubSeq(s, 1, Len(s) - 1)), s[Len(s)])

\* IVFIndex::stats; the median indexes the sorted sizes and panics when the
\* index has no posting list.
stats(self) ==
    LET lens == Vec([c \in 1..Len(self.inverted_lists) |->
                       Len(self.inverted_lists[c])])
        sizes == SortSizes(lens)
    IN IF Len(sizes) = 0 THEN [panic |-> TRUE]
       ELSE [panic |-> FALSE,
             num_clusters |-> Len(self.centroids),
             total_vectors |-> SumSeq(lens),
             non_empty_clusters |-> Cardinality({c \in 1..Len(lens) : lens[c] > 0}),
             min_cluster_size |-> sizes[1],
             median_cluster_size |-> sizes[(Len(sizes) \div 2) + 1],
             max_cluster_size |-> sizes[Len(sizes)],
             num_probe |-> self.num_probe]

\* ------------------------------------------------------------- PQ codec
\* vector[start..end] for sub-vector subvec_idx (0-based).
extract_subvector(vector, subvec_idx, subvec_size) ==
    SubSeq(vector, subvec_idx * subvec_size + 1,
           subvec_idx * subvec_size + subvec_size)

\* Codebook::train under the random source rng; a panicking k-means is
\* reported by panic.
Codebook_train(training_vectors, n_centroids, rng) ==
    CHOOSE cb \in
      {[panic |-> r.panic, centroids |-> r.centroids,
        dimensions |-> Len(training_vectors[1])] :
          r \in {kmeans(training_vectors, n_centroids, max_iterations, rng)}} : TRUE

\* Codebook::encode: index of the nearest centroid (first minimum), as u8;
\* the vector is given in units of 1/Scale, as centroids are.
Codebook_encode_at(codebook, point) ==
    find_nearest_centroid(point, codebook.centroids).idx % 256

\* Codebook::encode of a vector of whole numbers
Codebook_encode(codebook, vector) == Codebook_encode_at(codebook, ScaleVec(vector))

\* Codebook::decode
Codebook_decode(codebook, code) == codebook.centroids[code + 1]

\* Codebook::distance_to_centroid: squared distance, in units of 1/Scale^2.
distance_to_centroid(codebook, query, code) ==
    euclidean_distance_squared(ScaleVec(query), codebook.centroids[code + 1])

PQCodecPanic ==
    [panic |-> TRUE, num_subvectors |-> 0, subvector_size |-> 0, codebooks |-> <<>>]

\* PQCodec::train: one codebook per sub-vector, trained in turn.  The two
\* assertions (and the division by num_subvectors) panic.
PQCodec_train(training_vectors, num_subvectors, rng) ==
    IF Len(training_vectors) = 0 THEN PQCodecPanic
    ELSE IF num_subvectors = 0 THEN PQCodecPanic
    ELSE IF Len(training_vectors[1]) % num_subvectors /= 0 THEN PQCodecPanic
    ELSE LET dimensions == Len(training_vectors[1])
             subvector_size == dimensions \div num_subvectors
             subvectors(j) == Vec([i \in 1..Len(training_vectors) |->
                                 extract_subvector(training_vectors[i], j, subvector_size)])
         IN CHOOSE codec \in
              {[panic |-> \E j \in 1..num_subvectors : cbs[j].panic,
                num_subvectors |-> num_subvectors,
                subvector_size |-> subvector_size,
                codebooks |-> cbs] :
                  cbs \in {Vec([j \in 1..num_subvectors |->
                              Codebook_train(subvectors(j - 1), num_centroids, rng)])}} : TRUE

\* PQCodec::encode
PQCodec_encode(codec, vector) ==
    Vec([j \in 1..Len(codec.codebooks) |->
        Codebook_encode(codec.codebooks[j],
                        extract_subvector(vector, j - 1, codec.subvector_size))])

\* PQCodec::encode of a vector given in units of 1/Scale
PQCodec_encode_at(codec, point) ==
    Vec([j \in 1..Len(codec.codebooks) |->
        Codebook_encode_at(codec.codebooks[j],
                           extract_subvector(point, j - 1, codec.subvector_size))])

\* PQCodec::decode
PQCodec_decode(codec, codes) ==
    LET n == Min(Len(codes), Len(codec.codebooks))
        part(j) == Codebook_decode(codec.codebooks[j], codes[j])
        width == codec.subvector_size
    IN Vec([i \in 1..(n * width) |->
           part(((i - 1) \div width) + 1)[((i - 1) % width) + 1]])

\* PQCodec::asymmetric_distance: sqrt of the summed squared distances.
asymmetric_distance(codec, query, codes) ==
    LET n == Min(Len(codes), Len(codec.codebooks))
    IN Score(SumTo(Vec([j \in 1..n |->
                       distance_to_centroid(codec.codebooks[j],
                           extract_subvector(query, j - 1, codec.subvector_size),
                           codes[j])]), n),
             SquareUnits)

\* `for code in 0..256` of precompute_distance_table indexes a centroid
\* that a codebook with fewer than 256 centroids does not have.
table_panics(codec) ==
    \E j \in 1..Len(codec.codebooks) :
       Len(codec.codebooks[j].centroids) < code_values

\* PQCodec::precompute_distance_table: one row per codebook, one entry per
\* code value 0..255.
precompute_distance_table(codec, query) ==
    Vec([j \in 1..Len(codec.codebooks) |->
        Vec([c \in 1..code_values |->
            distance_to_centroid(codec.codebooks[j],
                extract_subvector(query, j - 1, codec.subvector_size), c - 1)])])

\* a lookup that reads every code in the first row of the table
table_lookup_distance_first_row(dist_table, codes) ==
    Score(SumTo(Vec([i \in 1..Len(codes) |-> dist_table[1][codes[i] + 1]]), Len(codes)),
          SquareUnits)

\* PQCodec::table_lookup_distance: sqrt of the summed table entries.
table_lookup_distance(dist_table, codes) ==
    Score(SumTo(Vec([i \in 1..Len(codes) |-> dist_table[i][codes[i] + 1]]), Len(codes)),
          SquareUnits)

\* a storage that misses the code of the last vector
QuantizedVectors_without_last(codec, vectors) ==
    [codec |-> codec,
     codes |-> Vec([i \in 1..(Len(vectors) - 1) |-> PQCodec_encode(codec, vectors[i])])]

\* QuantizedVectors::new followed by add for every vector.
QuantizedVectors_of(codec, vectors) ==
    [codec |-> codec,
     codes |-> Vec([i \in 1..Len(vectors) |-> PQCodec_encode(codec, vectors[i])])]

\* ------------------------------------------------------------- inputs
\* Option<T>: None is the empty sequence, Some(x) the one-element sequence.
None == <<>>
Some(x) == <<x>>

Vals == {0, 1}

\* Every vector of length n over Vals.
VecsOfLen(n) == [1..n -> Vals]

\* A vector one shorter and a vector one longer than dimensions (only the
\* length of a rejected vector is looked at).
WrongLenVecs(dimensions) ==
    {Vec([j \in 1..n |-> 0]) : n \in {dimensions - 1, dimensions + 1} \cap Nat}

\* The (vector, metadata) pairs passed to insert.
InsertInputs(dimensions) ==
    {<<v, None>> : v \in {<<0, 0>>, <<1, 0>>, <<0, 1>>} \cup WrongLenVecs(dimensions)}
    \cup {<<<<1, 0>>, Some("a")>>, <<<<0>>, Some("a")>>}

\* The (query, k) pairs passed to search.
SearchInputs(dimensions) ==
    ({<<0, 0>>, <<1, 0>>, <<1, 1>>} \X (0..MaxK))
    \cup (WrongLenVecs(dimensions) \X {1})

\* The random sources a build runs under: constant streams.
Rngs == {[u |-> <<a>>, f |-> <<b>>] : a \in {0, 1}, b \in {<<0, 1>>, <<1, 2>>}}

Cfg(metric, use_pq, pq_subvectors, num_clusters, num_probe) ==
    [dimensions |-> 2, metric |-> metric, use_pq |-> use_pq,
     pq_subvectors |-> pq_subvectors, num_clusters |-> num_clusters,
     num_probe |-> num_probe]

\* The configurations a database is created with; Config::validate accepts
\* each of them (dimensions > 0, pq_subvectors divides dimensions).
Configs ==
    {Cfg("Cosine", FALSE, 8, 1, 1),
     Cfg("DotProduct", FALSE, 8, 2, 1),
     Cfg("Euclidean", TRUE, 1, 2, 1),
     Cfg("Cosine", TRUE, 2, 2, 3)}

\* Config::validate; the remainder by pq_subvectors = 0 panics.
validate(cfg) ==
    IF cfg.dimensions = 0 THEN "InvalidConfig"
    ELSE IF cfg.use_pq /\ cfg.pq_subvectors = 0 THEN "panic"
    ELSE IF cfg.use_pq /\ cfg.dimensions % cfg.pq_subvectors /= 0 THEN "InvalidConfig"
    ELSE "Ok"

\* ----------------------------------------------------------- the facade

VARIABLES
    config,        \* VectorDB.config
    vectors,       \* VectorDB.vectors
    quantized,     \* VectorDB.quantized : Option<QuantizedVectors>
    ivf_index,     \* VectorDB.ivf_index : Option<IVFIndex>
    metadata,      \* VectorDB.metadata : id -> value
    next_id,       \* VectorDB.next_id
    index_built,   \* VectorDB.index_built
    result,        \* the last facade call: its arguments and what it returned
    built_ever,    \* history: some build_index has returned Ok
    ivf,           \* a stand-alone IVFIndex (used directly, without a VectorDB)
    ivf_call,      \* the last call on the stand-alone IVFIndex
    file           \* the file written by VectorDB::save : Option<bytes>

db == <<config, vectors, quantized, ivf_index, metadata, next_id, index_built>>
vars == <<config, vectors, quantized, ivf_index, metadata, next_id, index_built,
          result, built_ever, ivf, ivf_call, file, unit>>

\* What a facade call returned.  ret is "Ok", an error name or "panic".
Res(op, ret, arg, k, expected, got, id, hits) ==
    [op |-> op, ret |-> ret, arg |-> arg, k |-> k, expected |-> expected,
     got |-> got, id |-> id, hits |-> hits]

\* What an accepted insert returned: the id, with the arguments of the call.
InsertOk(vector, meta, id) ==
    [op |-> "insert", ret |-> "Ok", arg |-> vector, k |-> 0, expected |-> 0,
     got |-> 0, id |-> id, hits |-> <<>>, meta |-> meta]

\* No library function has been called on its own.
NoUnit == [op |-> "none"]

\* A panic unwinds out of the call; nothing is called on the value again.
\* While a batch_search is in flight the caller is inside the call.
Alive == result.ret \notin {"panic", "running"}

\* VectorDB::new(config) for a valid config.
Init ==
    /\ config \in Configs
    /\ validate(config) = "Ok"
    /\ vectors = <<>>
    /\ quantized = None
    /\ ivf_index = None
    /\ metadata = <<>>
    /\ next_id = 0
    /\ index_built = FALSE
    /\ result = Res("new", "Ok", <<>>, 0, 0, 0, 0, <<>>)
    /\ built_ever = FALSE
    /\ ivf = IVFIndex_new(0, 0, 0)
    /\ ivf_call = [op |-> "none", arg |-> <<>>, n |-> 0, out |-> <<>>, panic |-> FALSE]
    /\ file = None
    /\ unit = NoUnit

\* vector.len() != self.config.dimensions
dimension_mismatch(vector) == Len(vector) /= config.dimensions

\* insert invalidating the index before it checks the length
VectorDB_insert_invalidate_first(vector, meta) ==
    /\ Alive
    /\ index_built' = FALSE
    /\ IF dimension_mismatch(vector)
       THEN /\ result' = Res("insert", "DimensionMismatch", vector, 0,
                             config.dimensions, Len(vector), 0, <<>>)
            /\ UNCHANGED <<config, vectors, quantized, ivf_index, metadata, next_id>>
       ELSE /\ vectors' = Append(vectors, vector)
            /\ metadata' = IF meta = None THEN metadata
                           ELSE [i \in DOMAIN metadata \cup {next_id} |->
                                    IF i = next_id THEN meta[1] ELSE metadata[i]]
            /\ next_id' = next_id + 1
            /\ result' = InsertOk(vector, meta, next_id)
            /\ UNCHANGED <<config, quantized, ivf_index>>
    /\ UNCHANGED <<built_ever, ivf, ivf_call, file, unit>>

\* insert taking its id before it checks the length
VectorDB_insert_id_first(vector, meta) ==
    /\ Alive
    /\ next_id' = next_id + 1
    /\ IF dimension_mismatch(vector)
       THEN /\ result' = Res("insert", "DimensionMismatch", vector, 0,
                             config.dimensions, Len(vector), 0, <<>>)
            /\ UNCHANGED <<config, vectors, quantized, ivf_index, metadata, index_built>>
       ELSE /\ vectors' = Append(vectors, vector)
            /\ metadata' = IF meta = None THEN metadata
                           ELSE [i \in DOMAIN metadata \cup {next_id} |->
                                    IF i = next_id THEN meta[1] ELSE metadata[i]]
            /\ index_built' = FALSE
            /\ result' = InsertOk(vector, meta, next_id)
            /\ UNCHANGED <<config, quantized, ivf_index>>
    /\ UNCHANGED <<built_ever, ivf, ivf_call, file, unit>>

\* an insert that leaves index_built as it was
VectorDB_insert_keeping_built(vector, meta) ==
    /\ Alive
    /\ IF dimension_mismatch(vector)
       THEN /\ result' = Res("insert", "DimensionMismatch", vector, 0,
                             config.dimensions, Len(vector), 0, <<>>)
            /\ UNCHANGED db
       ELSE /\ vectors' = Append(vectors, vector)
            /\ metadata' = IF meta = None THEN metadata
                           ELSE [i \in DOMAIN metadata \cup {next_id} |->
                                    IF i = next_id THEN meta[1] ELSE metadata[i]]
            /\ next_id' = next_id + 1
            /\ result' = InsertOk(vector, meta, next_id)
            /\ UNCHANGED <<config, quantized, ivf_index, index_built>>
    /\ UNCHANGED <<built_ever, ivf, ivf_call, file, unit>>

\* VectorDB::insert(vector, metadata)
VectorDB_insert(vector, meta) ==
    /\ Alive
    /\ IF dimension_mismatch(vector)
       THEN /\ result' = Res("insert", "DimensionMismatch", vector, 0,
                             config.dimensions, Len(vector), 0, <<>>)
            /\ UNCHANGED db
       ELSE /\ vectors' = Append(vectors, vector)
            /\ metadata' = IF meta = None THEN metadata
                           ELSE [i \in DOMAIN metadata \cup {next_id} |->
                                    IF i = next_id THEN meta[1] ELSE metadata[i]]
            /\ next_id' = next_id + 1
            /\ index_built' = FALSE
            /\ result' = InsertOk(vector, meta, next_id)
            /\ UNCHANGED <<config, quantized, ivf_index>>
    /\ UNCHANGED <<built_ever, ivf, ivf_call, file, unit>>

\* Step 1 of build_index: what self.quantized is after it, or a panic.
BuildQuantized(rng) ==
    IF config.use_pq
    THEN CHOOSE out \in
           {[panic |-> codec.panic,
             quantized |-> IF codec.panic THEN quantized
                           ELSE Some(QuantizedVectors_of(codec, vectors))] :
               codec \in {PQCodec_train(vectors, config.pq_subvectors, rng)}} : TRUE
    ELSE [panic |-> FALSE, quantized |-> quantized]

\* a build that does not look for the empty database
is_empty_unchecked(vs) == FALSE

\* self.vectors.is_empty()
is_empty(vs) == Len(vs) = 0

\* VectorDB::build_index, with the random source the trainers draw from.
VectorDB_build_index(rng) ==
    /\ Alive
    /\ IF is_empty(vectors)
       THEN /\ result' = Res("build_index", "InvalidConfig", <<>>, 0, 0, 0, 0, <<>>)
            /\ UNCHANGED <<db, built_ever>>
       ELSE \E q \in {BuildQuantized(rng)} :
               IF q.panic
               THEN /\ result' = Res("build_index", "panic", <<>>, 0, 0, 0, 0, <<>>)
                    /\ UNCHANGED <<db, built_ever>>
               ELSE \E b \in {IVFIndex_build(
                                 IVFIndex_new(config.dimensions, config.num_clusters,
                                              config.num_probe),
                                 vectors, config.num_clusters, rng)} :
                    /\ quantized' = q.quantized
                    /\ IF b.panic
                       THEN /\ result' = Res("build_index", "panic", <<>>, 0, 0, 0, 0, <<>>)
                            /\ UNCHANGED <<ivf_index, index_built, built_ever>>
                       ELSE /\ ivf_index' = Some(b.ivf)
                            /\ index_built' = TRUE
                            /\ built_ever' = TRUE
                            /\ result' = Res("build_index", "Ok", <<>>, 0, 0, 0, 0, <<>>)
                    /\ UNCHANGED <<config, vectors, metadata, next_id>>
    /\ UNCHANGED <<ivf, ivf_call, file, unit>>

\* a lookup that returns the metadata of the lowest id that has some
MetadataOf_lowest(id) ==
    IF DOMAIN metadata = {} THEN None
    ELSE Some(metadata[CHOOSE i \in DOMAIN metadata : \A j \in DOMAIN metadata : i <= j])

\* self.metadata.get(&id).cloned()
MetadataOf(id) == IF id \in DOMAIN metadata THEN Some(metadata[id]) ELSE None

\* Step 5: the SearchResult values of the scored pairs.
BuildResults(scored) ==
    Vec([i \in 1..Len(scored) |->
        [id |-> scored[i].id, distance |-> scored[i].distance,
         metadata |-> MetadataOf(scored[i].id)]])

\* Steps 4 and 5: sort, truncate, build the results: [panic, hits].
TopK(scored, k) ==
    IF SortPanics(scored) THEN [panic |-> TRUE, hits |-> <<>>]
    ELSE [panic |-> FALSE, hits |-> BuildResults(truncate(sort_by(scored), k))]

\* Step 3 of search_with_index: the (id, distance) pair of every candidate.
ScoreCandidates(candidates, dist_table, quant) ==
    Vec([i \in 1..Len(candidates) |->
        [id |-> candidates[i],
         distance |-> table_lookup_distance(dist_table,
                                            quant.codes[candidates[i] + 1])]])

\* VectorDB::search_with_index: [panic, hits].
search_with_index(query, k, index, quant) ==
    IF table_panics(quant.codec) THEN [panic |-> TRUE, hits |-> <<>>]
    ELSE CHOOSE r \in
      {TopK(ScoreCandidates(candidates, dist_table, quant), k) :
          candidates \in {get_candidates(index, probe(index, query))},
          dist_table \in {precompute_distance_table(quant.codec, query)}} : TRUE

\* The values of DistanceMetric.
Metrics == {"Cosine", "Euclidean", "DotProduct"}

\* VectorDB::search_linear on a database whose config.metric is metric:
\* [panic, hits].
search_linear_with(metric, query, k) ==
    CHOOSE r \in
      {TopK(scored, k) :
          scored \in {Vec([i \in 1..Len(vectors) |->
                        [id |-> i - 1,
                         distance |-> compute_distance(query, vectors[i],
                                                       metric)]])}} : TRUE

\* VectorDB::search_linear: [panic, hits].
search_linear(query, k) == search_linear_with(config.metric, query, k)

\* search with its two checks in the other order
search_check_index_first(query) ==
    IF ~index_built THEN "IndexNotBuilt"
    ELSE IF Len(query) /= config.dimensions THEN "DimensionMismatch"
    ELSE "Ok"

\* The two checks at the head of VectorDB::search: the error returned, or
\* "Ok" when the query goes on to the index.
search_check(query) ==
    IF Len(query) /= config.dimensions THEN "DimensionMismatch"
    ELSE IF ~index_built THEN "IndexNotBuilt"
    ELSE "Ok"

\* a search that always scans the vectors under the configured metric
search_built_linear_only(metric, query, k) == search_linear_with(metric, query, k)

\* The body of VectorDB::search once both checks have passed, on a
\* database whose config.metric is metric.
search_built_with(metric, query, k) ==
    IF ivf_index /= None /\ quantized /= None
    THEN search_with_index(query, k, ivf_index[1], quantized[1])
    ELSE search_linear_with(metric, query, k)

\* The body of VectorDB::search once both checks have passed.
search_built(query, k) == search_built_with(config.metric, query, k)

\* VectorDB::search(query, k)
VectorDB_search(query, k) ==
    /\ Alive
    /\ \E check \in {search_check(query)} :
         IF check = "DimensionMismatch"
         THEN result' = Res("search", check, query, k,
                            config.dimensions, Len(query), 0, <<>>)
         ELSE IF check = "IndexNotBuilt"
         THEN result' = Res("search", check, query, k, 0, 0, 0, <<>>)
         ELSE \E r \in {search_built(query, k)} :
                result' = Res("search", IF r.panic THEN "panic" ELSE "Ok",
                              query, k, 0, 0, 0, r.hits)
    /\ UNCHANGED <<db, built_ever, ivf, ivf_call, file, unit>>

\* self.search(query, k) as a value: what the call returns, or a panic.
search(query, k) ==
    CHOOSE out \in
      {IF check = "DimensionMismatch"
       THEN [ret |-> check, expected |-> config.dimensions, got |-> Len(query),
             hits |-> <<>>]
       ELSE IF check = "IndexNotBuilt"
       THEN [ret |-> check, expected |-> 0, got |-> 0, hits |-> <<>>]
       ELSE CHOOSE o \in
              {[ret |-> IF r.panic THEN "panic" ELSE "Ok", expected |-> 0,
                got |-> 0, hits |-> r.hits] : r \in {search_built(query, k)}} : TRUE :
          check \in {search_check(query)}} : TRUE

\* ------------------------------------------------------- batch_search
\* queries.par_iter().map(|query| self.search(query, k)).collect() hands
\* the queries to the worker threads of the pool.  The call is in flight
\* from its entry to its return: each query is searched by some worker, in
\* any order and at any time relative to the others.  A worker's search
\* reads the database through &self and writes nothing the other workers
\* or the caller read, so it is one step; the steps of the workers
\* interleave freely.  While the call borrows the database no &mut self
\* method (insert, build_index) can run.

\* The slot of a query no worker has searched yet.
Pending == [ret |-> "pending", expected |-> 0, got |-> 0, hits |-> <<>>]

\* The call in flight: outs holds, by position, what the workers have
\* returned so far.
ParIter(queries, k, outs) ==
    [op |-> "par_iter", ret |-> "running", arg |-> queries, k |-> k,
     expected |-> 0, got |-> 0, id |-> 0, hits |-> <<>>, outs |-> outs]

\* The positions whose search returned an error or panicked.
Failed(outs) == {j \in 1..Len(outs) : outs[j].ret \notin {"pending", "Ok"}}

\* collect::<Result<Vec<_>>>(): the results by position if every search
\* returned Ok, else the error or panic that stopped the batch.
CollectResults(outs) ==
    IF Failed(outs) = {}
    THEN [ret |-> "Ok", expected |-> 0, got |-> 0,
          hits |-> Vec([i \in 1..Len(outs) |-> outs[i].hits])]
    ELSE [outs[CHOOSE j \in Failed(outs) : TRUE] EXCEPT !.hits = <<>>]

\* The batches handed to batch_search.
BatchInputs(dimensions) ==
    {<< <<>>, 1 >>,
     << <<<<1, 0>>, <<1, 0>>, <<1, 0>>>>, MaxK >>,
     << <<<<0, 0>>, <<1, 1>>>>, 1 >>} \cup
    {<< <<<<1, 1>>, w>>, 1 >> : w \in WrongLenVecs(dimensions)} \cup
    {<< <<<<0>>, <<0, 0, 0>>>>, 1 >>}

\* VectorDB::batch_search(queries, k): the test of index_built and the
\* hand-over of the queries to the pool.
VectorDB_batch_search(queries, k) ==
    /\ Alive
    /\ IF ~index_built
       THEN result' = Res("batch_search", "IndexNotBuilt", queries, k, 0, 0, 0, <<>>)
       ELSE result' = ParIter(queries, k, Vec([i \in 1..Len(queries) |-> Pending]))
    /\ UNCHANGED <<db, built_ever, ivf, ivf_call, file, unit>>

\* a worker whose search marks the index as stale
batch_search_worker_writing(i) ==
    /\ result.ret = "running"
    /\ i \in 1..Len(result.arg)
    /\ result.outs[i] = Pending
    /\ Failed(result.outs) = {}
    /\ result' = [result EXCEPT !.outs[i] = search(result.arg[i], result.k)]
    /\ index_built' = FALSE
    /\ UNCHANGED <<config, vectors, quantized, ivf_index, metadata, next_id>>
    /\ UNCHANGED <<built_ever, ivf, ivf_call, file, unit>>

\* A worker takes the i-th query and runs self.search(query, k) on it.  No
\* query is taken once a search has failed: the rest of the batch is
\* dropped.
batch_search_worker(i) ==
    /\ result.ret = "running"
    /\ i \in 1..Len(result.arg)
    /\ result.outs[i] = Pending
    /\ Failed(result.outs) = {}
    /\ result' = [result EXCEPT !.outs[i] = search(result.arg[i], result.k)]
    /\ UNCHANGED <<db, built_ever, ivf, ivf_call, file, unit>>

\* The return of batch_search: every query has been searched, or a search
\* has failed.
batch_search_collect ==
    /\ result.ret = "running"
    /\ \/ Failed(result.outs) /= {}
       \/ \A j \in 1..Len(result.outs) : result.outs[j].ret = "Ok"
    /\ \E out \in {CollectResults(result.outs)} :
          result' = Res("batch_search", out.ret, result.arg, result.k,
                        out.expected, out.got, 0, out.hits)
    /\ UNCHANGED <<db, built_ever, ivf, ivf_call, file, unit>>

\* The queries of the batch in flight, by position.
InFlight == IF result.ret = "running" THEN 1..Len(result.arg) ELSE {}

Next ==
    \/ \E input \in BatchInputs(config.dimensions) :
          VectorDB_batch_search(input[1], input[2])
    \/ \E i \in InFlight : batch_search_worker(i)
    \/ batch_search_collect
    \/ /\ Len(vectors) < MaxVectors
       /\ \E input \in InsertInputs(config.dimensions) :
             VectorDB_insert(input[1], input[2])
    \/ \E rng \in Rngs : VectorDB_build_index(rng)
    \/ \E input \in SearchInputs(config.dimensions) :
          VectorDB_search(input[1], input[2])

Spec == Init /\ [][Next]_vars

\* ------------------------------------------ a database PQ can be trained on
\* PQCodec::train asks k-means for num_centroids centroids, so build_index
\* with use_pq = true needs num_centroids vectors.  The database is filled
\* with that many vectors, alternately <<1, 0>> and <<0, 1>>, the first with
\* metadata, then built and searched; up to MaxExtra more vectors are
\* inserted after that.
BulkVector(id) == IF id % 2 = 0 THEN <<1, 0>> ELSE <<0, 1>>
BulkMeta(id) == IF id = 0 THEN Some("a") ELSE None

\* The random source of a build of that database.  Under it k-means++
\* selects both vectors and every cluster holds copies of one vector, so
\* every mean is exact.
BulkRngs == {[u |-> <<1>>, f |-> <<<<1, 2>>>>]}

\* The (query, k) pairs passed to search on that database.
BulkSearches == {<< <<0, 0>>, MaxK >>, << <<1, 0>>, 1 >>, << <<1, 1>>, MaxK >>}

InitBulk == Init /\ config.use_pq

NextBulk ==
    \/ /\ Len(vectors) < num_centroids + MaxExtra
       /\ VectorDB_insert(BulkVector(next_id), BulkMeta(next_id))
    \/ \E rng \in BulkRngs : VectorDB_build_index(rng)
    \/ \E input \in BulkSearches : VectorDB_search(input[1], input[2])

SpecBulk == InitBulk /\ [][NextBulk]_vars

\* ------------------------------------------- the stand-alone IVF index
\* IVFIndex used directly, as the tests of ivf.rs do: new, build,
\* set_num_probe, probe.  Every caller builds with the cluster count it
\* passed to new.
IvfCall(op, arg, n, out, panic) ==
    [op |-> op, arg |-> arg, n |-> n, out |-> out, panic |-> panic]

\* The training sets handed to IVFIndex::build.
TrainingSets ==
    UNION {[1..n -> {<<0, 0>>, <<1, 0>>, <<0, 1>>}] : n \in 1..MaxVectors}

IvfQueries == {<<0, 0>>, <<1, 0>>, <<1, 1>>}

InitIVF ==
    /\ config = Cfg("Euclidean", FALSE, 8, 1, 1)
    /\ vectors = <<>>
    /\ quantized = None
    /\ ivf_index = None
    /\ metadata = <<>>
    /\ next_id = 0
    /\ index_built = FALSE
    /\ result = Res("new", "Ok", <<>>, 0, 0, 0, 0, <<>>)
    /\ built_ever = FALSE
    /\ \E num_clusters \in 1..2, num_probe \in {1, MaxProbeArg} :
          ivf = IVFIndex_new(2, num_clusters, num_probe)
    /\ ivf_call = IvfCall("new", <<>>, 0, <<>>, FALSE)
    /\ file = None
    /\ unit = NoUnit

\* index.build(&vectors, num_clusters)
IVF_build(training, rng) ==
    /\ ~ivf_call.panic
    /\ \E b \in {IVFIndex_build(ivf, training, Len(ivf.inverted_lists), rng)} :
          /\ ivf' = b.ivf
          /\ ivf_call' = IvfCall("build", training, 0, <<>>, b.panic)
    /\ UNCHANGED <<db, result, built_ever, file, unit>>

\* index.set_num_probe(n)
IVF_set_num_probe(n) ==
    /\ ~ivf_call.panic
    /\ ivf' = set_num_probe(ivf, n)
    /\ ivf_call' = IvfCall("set_num_probe", <<>>, n, <<>>, FALSE)
    /\ UNCHANGED <<db, result, built_ever, file, unit>>

\* index.probe(&query)
IVF_probe(query) ==
    /\ ~ivf_call.panic
    /\ ivf_call' = IvfCall("probe", query, 0, probe(ivf, query), FALSE)
    /\ UNCHANGED <<db, result, built_ever, file, unit, ivf>>

NextIVF ==
    \/ \E training \in TrainingSets, rng \in Rngs : IVF_build(training, rng)
    \/ \E n \in 0..MaxProbeArg : IVF_set_num_probe(n)
    \/ \E query \in IvfQueries : IVF_probe(query)

SpecIVF == InitIVF /\ [][NextIVF]_vars

\* ------------------------------------------- the stand-alone PQ codec
\* PQCodec used directly, as the tests of product_quantization.rs do:
\* train, then encode, decode and the distance functions on the codec.
\* unit holds the codec, the arguments and the result of the last call;
\* first holds the codes whose decoding was encoded again, tiny the
\* magnitude of the numbers of the run.
PqCall(op, codec, arg, codes, out, table, first) ==
    [op |-> op, codec |-> codec, arg |-> arg, codes |-> codes, out |-> out,
     table |-> table, first |-> first, tiny |-> Tiny]

\* The code bytes handed to the codec: the lowest, the highest and two more.
CodeValues == {0, 1, 2, 255}

\* The codes handed to a codec with m codebooks.
Codes(m) == [1..m -> CodeValues]

\* n vectors, alternately a and b.
Alternating(a, b, n) == Vec([i \in 1..n |-> IF i % 2 = 1 THEN a ELSE b])

\* The training sets handed to PQCodec::train: the small ones, which are
\* too small for num_centroids centroids, and sets of num_centroids
\* vectors, half of them a and half of them b, on which every mean that
\* k-means computes is exact.
PqTrainingSets ==
    TrainingSets \cup
    {Alternating(p[1], p[2], num_centroids) :
        p \in {<<<<1, 0>>, <<0, 1>>>>, <<<<0, 0>>, <<1, 1>>>>, <<<<1, 0>>, <<1, 0>>>>}}

\* The training sets of a run of tiny magnitude: num_centroids vectors,
\* half of them zero and half of them 2 * 2^-76 in every coordinate.  The
\* f32 squared distance of any two of them is 0.
TinyTrainingSets == {Alternating(<<0, 0>>, <<2, 2>>, num_centroids)}

\* The coordinates of the vectors encoded in a run of tiny magnitude.
TinyVals == {0, 2, 4}

InitPQ ==
    /\ config = Cfg("Euclidean", TRUE, 1, 1, 1)
    /\ vectors = <<>>
    /\ quantized = None
    /\ ivf_index = None
    /\ metadata = <<>>
    /\ next_id = 0
    /\ index_built = FALSE
    /\ result = Res("new", "Ok", <<>>, 0, 0, 0, 0, <<>>)
    /\ built_ever = FALSE
    /\ ivf = IVFIndex_new(2, 1, 1)
    /\ ivf_call = IvfCall("new", <<>>, 0, <<>>, FALSE)
    /\ file = None
    /\ unit = NoUnit

\* The stand-alone codec before training, in a run of either magnitude.
InitCodec ==
    /\ config = Cfg("Euclidean", TRUE, 1, 1, 1)
    /\ vectors = <<>>
    /\ quantized = None
    /\ ivf_index = None
    /\ metadata = <<>>
    /\ next_id = 0
    /\ index_built = FALSE
    /\ result = Res("new", "Ok", <<>>, 0, 0, 0, 0, <<>>)
    /\ built_ever = FALSE
    /\ ivf = IVFIndex_new(2, 1, 1)
    /\ ivf_call = IvfCall("new", <<>>, 0, <<>>, FALSE)
    /\ file = None
    /\ \E tiny \in BOOLEAN : unit = [op |-> "none", tiny |-> tiny]

PQ_unchanged == UNCHANGED <<db, result, built_ever, ivf, ivf_call, file>>

\* PQCodec::train(&training, num_subvectors)
PQ_train(training, num_subvectors, rng) ==
    /\ unit.op = "none"
    /\ unit' = PqCall("train", PQCodec_train(training, num_subvectors, rng),
                      <<>>, <<>>, <<>>, <<>>, <<>>)
    /\ PQ_unchanged

PQ_ready == unit.op /= "none" /\ ~unit.codec.panic

\* codec.encode(&vector), the vector in units of 1/Scale
PQ_encode(point) ==
    /\ PQ_ready
    /\ unit' = PqCall("encode", unit.codec, point,
                      PQCodec_encode_at(unit.codec, point), <<>>, <<>>,
                      IF unit.op = "decode" /\ point = unit.out
                      THEN unit.first ELSE <<>>)
    /\ PQ_unchanged

\* codec.decode(&codes)
PQ_decode(codes) ==
    /\ PQ_ready
    /\ unit' = PqCall("decode", unit.codec, <<>>, codes,
                      PQCodec_decode(unit.codec, codes), <<>>,
                      IF unit.op = "encode" /\ codes = unit.codes
                      THEN codes ELSE <<>>)
    /\ PQ_unchanged

\* codec.asymmetric_distance(&query, &codes)
PQ_asymmetric_distance(query, codes) ==
    /\ PQ_ready
    /\ unit' = PqCall("asymmetric_distance", unit.codec, query, codes,
                      asymmetric_distance(unit.codec, query, codes), <<>>, <<>>)
    /\ PQ_unchanged

\* codec.precompute_distance_table(&query)
PQ_precompute_distance_table(query) ==
    /\ PQ_ready
    /\ unit' = PqCall("precompute_distance_table", unit.codec, query, <<>>, <<>>,
                      precompute_distance_table(unit.codec, query), <<>>)
    /\ PQ_unchanged

\* codec.table_lookup_distance(&table, &codes) on the table computed last
PQ_table_lookup_distance(codes) ==
    /\ PQ_ready
    /\ unit.table /= <<>>
    /\ unit' = PqCall("table_lookup_distance", unit.codec, unit.arg, codes,
                      table_lookup_distance(unit.table, codes), unit.table, <<>>)
    /\ PQ_unchanged

\* The codes that fit the codec at hand.
UnitCodes == IF PQ_ready THEN Codes(Len(unit.codec.codebooks)) ELSE {}

NextPQ ==
    \/ \E training \in (IF Tiny THEN TinyTrainingSets ELSE PqTrainingSets),
          m \in 1..2, rng \in (IF Tiny THEN BulkRngs ELSE Rngs) :
          PQ_train(training, m, rng)
    \/ \E vector \in (IF Tiny THEN [1..2 -> TinyVals] ELSE VecsOfLen(2)) :
          PQ_encode(ScaleVec(vector))
    \/ unit.op = "decode" /\ PQ_encode(unit.out)
    \/ \E codes \in UnitCodes : PQ_decode(codes)
    \/ \E query \in VecsOfLen(2), codes \in UnitCodes :
          PQ_asymmetric_distance(query, codes)
    \/ \E query \in VecsOfLen(2) : PQ_precompute_distance_table(query)
    \/ \E codes \in UnitCodes : PQ_table_lookup_distance(codes)

SpecPQ == InitCodec /\ [][NextPQ]_vars

\* ------------------------------------------------ stand-alone k-means
\* kmeans called directly, as the tests of kmeans.rs do.  unit holds the
\* arguments, the number of centroids the initialisation selected, the
\* update steps executed and the result.
\* A draw under which the threshold of the weighted selection is still
\* positive after the last subtraction (the f32 sum and the f32
\* subtractions round differently), so that the round selects nothing.
Overshoot == <<2, 1>>

\* The random sources of a kmeans call.
KmRngs ==
    Rngs \cup {[u |-> <<a>>, f |-> b] :
                   a \in {0, 1}, b \in {<<Overshoot>>, <<Overshoot, <<1, 2>>>>}}

\* The iteration limits passed to kmeans.
KmIterations == {0, 1, 2, max_iterations}

KmCall(training, k, maxit, rng, selected, steps, out) ==
    [op |-> "kmeans", vectors |-> training, k |-> k, max_iterations |-> maxit,
     rng |-> rng, selected |-> selected, steps |-> steps, out |-> out]

\* kmeans(&vectors, k, max_iterations, 0.001)
KM_kmeans(training, k, maxit, rng) ==
    /\ unit.op = "none"
    /\ unit' = KmCall(training, k, maxit, rng,
                      IF k > Len(training) THEN 0
                      ELSE Len(kmeans_plus_plus_init(training, k, rng)),
                      kmeans_update_steps(training, k, maxit, rng),
                      kmeans(training, k, maxit, rng))
    /\ UNCHANGED <<db, result, built_ever, ivf, ivf_call, file>>

NextKMeans ==
    \E training \in TrainingSets, k \in 0..MaxVectors, maxit \in KmIterations,
       rng \in KmRngs : KM_kmeans(training, k, maxit, rng)

SpecKMeans == InitPQ /\ [][NextKMeans]_vars

\* ------------------------------------------- the raw-vector sidecar file
\* Serializer::save_vectors and Serializer::load_vectors.  A file is its
\* sequence of bytes.

RECURSIVE Pow2(_)
Pow2(n) == IF n = 0 THEN 1 ELSE 2 * Pow2(n - 1)

\* n.to_le_bytes() for an unsigned integer of `width` bytes
to_le_bytes(n, width) ==
    Vec([i \in 1..width |-> IF i <= 4 THEN (n \div Pow2(8 * (i - 1))) % 256 ELSE 0])

\* u64::from_le_bytes / u32::from_le_bytes; the values met fit four bytes
from_le_bytes(bytes) ==
    SumTo(Vec([i \in 1..Len(bytes) |->
              IF i <= 4 THEN bytes[i] * Pow2(8 * (i - 1)) ELSE 0]), Len(bytes))

RECURSIVE Log2(_)
\* the exponent of a positive whole number: floor(log2(x))
Log2(x) == IF x <= 1 THEN 0 ELSE 1 + Log2(x \div 2)

\* val.to_bits() of a non-negative whole f32: sign 0, biased exponent,
\* 23-bit mantissa
f32_to_bits(x) ==
    IF x = 0 THEN 0
    ELSE LET e == Log2(x)
         IN (e + 127) * Pow2(23) + (x - Pow2(e)) * Pow2(23 - e)

\* f32::from_bits: the whole number a bit pattern stands for; a pattern
\* that stands for another value (a subnormal, a fraction, a number of
\* 2^24 or more) is kept as the pattern
f32_from_bits(bits) ==
    IF bits = 0 THEN 0
    ELSE LET e == (bits \div Pow2(23)) - 127
             m == bits % Pow2(23)
         IN IF e >= 0 /\ e <= 23 /\ m % Pow2(23 - e) = 0
            THEN Pow2(e) + m \div Pow2(23 - e)
            ELSE [bits |-> bits]

\* val.to_le_bytes() / f32::from_le_bytes
f32_to_le_bytes(x) == to_le_bytes(f32_to_bits(x), 4)
f32_from_le_bytes(bytes) == f32_from_bits(from_le_bytes(bytes))

RECURSIVE Concat(_)
\* the bytes of consecutive write_all calls
Concat(chunks) ==
    IF chunks = <<>> THEN <<>> ELSE Head(chunks) \o Concat(Tail(chunks))

\* Serializer::save_vectors: the count, and only when there is a first
\* vector its length and then every value of every vector.
save_vectors(vs) ==
    to_le_bytes(Len(vs), 8)
    \o (IF Len(vs) = 0 THEN <<>>
        ELSE to_le_bytes(Len(vs[1]), 4)
             \o Concat(Vec([i \in 1..Len(vs) |->
                   Concat(Vec([j \in 1..Len(vs[i]) |-> f32_to_le_bytes(vs[i][j])]))])))

SidecarResult(ret, out) == [ret |-> ret, out |-> out]

\* Serializer::load_vectors: every read_exact that meets the end of the
\* file is an IoError.
load_vectors(bytes) ==
    IF Len(bytes) < 8 THEN SidecarResult("IoError", <<>>)
    ELSE IF Len(bytes) < 12 THEN SidecarResult("IoError", <<>>)
    ELSE LET count == from_le_bytes(SubSeq(bytes, 1, 8))
             dims == from_le_bytes(SubSeq(bytes, 9, 12))
         IN IF Len(bytes) < 12 + 4 * count * dims
            THEN SidecarResult("IoError", <<>>)
            ELSE SidecarResult("Ok",
                   Vec([i \in 1..count |->
                       Vec([j \in 1..dims |->
                           f32_from_le_bytes(
                               SubSeq(bytes, 12 + 4 * ((i - 1) * dims + (j - 1)) + 1,
                                      12 + 4 * ((i - 1) * dims + (j - 1)) + 4))])]))

\* bincode::serialize_into for a Vec<Vec<f32>>: every length as a u64 in
\* 8 little-endian bytes, every value in 4.
bincode_serialize(data) ==
    to_le_bytes(Len(data), 8)
    \o Concat(Vec([i \in 1..Len(data) |->
           to_le_bytes(Len(data[i]), 8)
           \o Concat(Vec([j \in 1..Len(data[i]) |-> f32_to_le_bytes(data[i][j])]))]))

\* a u64 length of 2^31 or more: more elements than any file here holds
LengthBeyondFile(bytes) == bytes[4] >= 128 \/ \E i \in 5..8 : bytes[i] /= 0

RECURSIVE bincode_read_vectors(_, _, _, _)
\* The elements of the outer Vec, read one after the other from position
\* pos: the length of the inner Vec, then its values.  A read that meets
\* the end of the file is an error.
bincode_read_vectors(bytes, pos, remaining, acc) ==
    IF remaining = 0 THEN SidecarResult("Ok", acc)
    ELSE IF Len(bytes) < pos + 7 THEN SidecarResult("BincodeError", <<>>)
    ELSE IF LengthBeyondFile(SubSeq(bytes, pos, pos + 7))
         THEN SidecarResult("BincodeError", <<>>)
    ELSE LET len == from_le_bytes(SubSeq(bytes, pos, pos + 7))
         IN IF Len(bytes) < pos + 7 + 4 * len
            THEN SidecarResult("BincodeError", <<>>)
            ELSE bincode_read_vectors(bytes, pos + 8 + 4 * len, remaining - 1,
                    Append(acc,
                        Vec([j \in 1..len |->
                            f32_from_le_bytes(SubSeq(bytes, pos + 8 + 4 * (j - 1),
                                                     pos + 8 + 4 * (j - 1) + 3))])))

\* bincode::deserialize_from for a Vec<Vec<f32>>; bytes after the value
\* are not read.
bincode_deserialize(bytes) ==
    IF Len(bytes) < 8 THEN SidecarResult("BincodeError", <<>>)
    ELSE IF LengthBeyondFile(SubSeq(bytes, 1, 8)) THEN SidecarResult("BincodeError", <<>>)
    ELSE bincode_read_vectors(bytes, 9, from_le_bytes(SubSeq(bytes, 1, 8)), <<>>)

\* The lists saved: up to MaxSaved vectors of one length, with values
\* whose f32 bit patterns differ in exponent and mantissa.
SidecarValues == {0, 1, 3}
SidecarLists ==
    UNION {[1..n -> [1..d -> SidecarValues]] : n \in 0..MaxSaved, d \in 0..2}

\* The lists written with Serializer::save, and the lists handed to a save
\* that fails.
BincodeLists ==
    UNION {[1..n -> [1..d -> {1, 3}]] : n \in 0..MaxSaved, d \in 0..2}
UnwrittenLists == {<<>>, <<<<1>>>>}

\* The paths handed to save and load: the file tracked in `file`, and a
\* path in a directory that does not exist, where File::create and
\* File::open fail.
FilePath == "vectors.bin"
MissingDirPath == "no_such_dir/vectors.bin"
Paths == {FilePath, MissingDirPath}

\* A call of the Serializer.  sidecar is history: the list whose
\* save_vectors bytes the file holds, None when there is no file or another
\* writer has replaced it.
SidecarCall(op, path, vs, ret, out, sidecar) ==
    [op |-> op, path |-> path, vectors |-> vs, ret |-> ret, out |-> out,
     sidecar |-> sidecar]

\* the list whose save_vectors bytes the file holds
SidecarHeld == IF file = None THEN None ELSE unit.sidecar

\* Serializer::save_vectors(&vectors, path)
Serializer_save_vectors(vs, path) ==
    /\ IF path = MissingDirPath
       THEN /\ unit' = SidecarCall("save_vectors", path, vs, "IoError", <<>>, SidecarHeld)
            /\ UNCHANGED file
       ELSE /\ file' = Some(save_vectors(vs))
            /\ unit' = SidecarCall("save_vectors", path, vs, "Ok", <<>>, Some(vs))
    /\ UNCHANGED <<db, result, built_ever, ivf, ivf_call>>

\* Serializer::save(&data, path) for a Vec<Vec<f32>>
Serializer_save(data, path) ==
    /\ IF path = MissingDirPath
       THEN /\ unit' = SidecarCall("save", path, data, "IoError", <<>>, SidecarHeld)
            /\ UNCHANGED file
       ELSE /\ file' = Some(bincode_serialize(data))
            /\ unit' = SidecarCall("save", path, data, "Ok", <<>>, None)
    /\ UNCHANGED <<db, result, built_ever, ivf, ivf_call>>

\* Serializer::load_vectors(path)
Serializer_load_vectors(path) ==
    /\ IF path = MissingDirPath \/ file = None
       THEN unit' = SidecarCall("load_vectors", path, <<>>, "IoError", <<>>, SidecarHeld)
       ELSE \E r \in {load_vectors(file[1])} :
               unit' = SidecarCall("load_vectors", path, <<>>, r.ret, r.out, SidecarHeld)
    /\ UNCHANGED <<db, result, built_ever, ivf, ivf_call, file>>

\* Serializer::load::<Vec<Vec<f32>>>(path)
Serializer_load(path) ==
    /\ IF path = MissingDirPath \/ file = None
       THEN unit' = SidecarCall("load", path, <<>>, "IoError", <<>>, SidecarHeld)
       ELSE \E r \in {bincode_deserialize(file[1])} :
               unit' = SidecarCall("load", path, <<>>, r.ret, r.out, SidecarHeld)
    /\ UNCHANGED <<db, result, built_ever, ivf, ivf_call, file>>

NextSidecar ==
    \/ \E vs \in SidecarLists : Serializer_save_vectors(vs, FilePath)
    \/ \E vs \in UnwrittenLists : Serializer_save_vectors(vs, MissingDirPath)
    \/ \E data \in BincodeLists : Serializer_save(data, FilePath)
    \/ \E data \in UnwrittenLists : Serializer_save(data, MissingDirPath)
    \/ \E path \in Paths : Serializer_load_vectors(path)
    \/ \E path \in Paths : Serializer_load(path)

SpecSidecar == InitPQ /\ [][NextSidecar]_vars

\* ------------------------------------------- the distance kernels alone
\* compute_distance called directly on two vectors of one length.
DistanceVecs == [1..2 -> {0, 1, 2}]

DistanceCall(a, b, metric, out) ==
    [op |-> "compute_distance", a |-> a, b |-> b, metric |-> metric, out |-> out]

\* compute_distance(&a, &b, metric)
Distance_compute(a, b, metric) ==
    /\ unit' = DistanceCall(a, b, metric, compute_distance(a, b, metric))
    /\ UNCHANGED <<db, result, built_ever, ivf, ivf_call, file>>

NextDistance ==
    \E a \in DistanceVecs, b \in DistanceVecs, metric \in Metrics :
       Distance_compute(a, b, metric)

SpecDistance == InitPQ /\ [][NextDistance]_vars

\* ---------------------------------------------------- save and load
\* VectorDB::save hands the tuple of the seven fields to
\* rmp_serde::encode::write and VectorDB::load reads a tuple of the same
\* seven types with rmp_serde::from_read.  The library is not part of the
\* sources; what it writes is modelled from the persisted layout of the
\* specification, "a length-prefixed framed serialization of the tuple"
\* that "preserves the tuple's type identity on read": a frame is the
\* length prefix of the tuple followed by its seven fields, each a tagged
\* value.  A struct is the array of its fields in declaration order, None
\* is nil, a unit enum variant is its name, a HashMap is a map.
MNil == [t |-> "nil"]
MBool(b) == [t |-> "bool", v |-> b]
MInt(n) == [t |-> "int", v |-> n]
MF32(x) == [t |-> "f32", v |-> x]
MStr(x) == [t |-> "str", v |-> x]
MArray(seq) == [t |-> "array", v |-> seq]
MMap(f) == [t |-> "map", v |-> f]

\* The length prefix of a frame: the array header of a tuple of seven
\* (0x97).  No file of the Serializer begins with it: those begin with the
\* low byte of a count or of a length, which is at most MaxSaved + 1.
FrameHeader == 151

\* Vec<f32>, Vec<Vec<f32>>, Vec<u8> / Vec<u32>, and vectors of those
ser_floats(v) == MArray(Vec([i \in 1..Len(v) |-> MF32(v[i])]))
de_floats(m) == Vec([i \in 1..Len(m.v) |-> m.v[i].v])
ser_vectors(vs) == MArray(Vec([i \in 1..Len(vs) |-> ser_floats(vs[i])]))
de_vectors(m) == Vec([i \in 1..Len(m.v) |-> de_floats(m.v[i])])
ser_ints(v) == MArray(Vec([i \in 1..Len(v) |-> MInt(v[i])]))
de_ints(m) == Vec([i \in 1..Len(m.v) |-> m.v[i].v])
ser_int_lists(ls) == MArray(Vec([i \in 1..Len(ls) |-> ser_ints(ls[i])]))
de_int_lists(m) == Vec([i \in 1..Len(m.v) |-> de_ints(m.v[i])])

\* Config
ser_config(c) ==
    MArray(<<MInt(c.dimensions), MStr(c.metric), MBool(c.use_pq),
             MInt(c.pq_subvectors), MInt(c.num_clusters), MInt(c.num_probe)>>)
de_config(m) ==
    [dimensions |-> m.v[1].v, metric |-> m.v[2].v, use_pq |-> m.v[3].v,
     pq_subvectors |-> m.v[4].v, num_clusters |-> m.v[5].v,
     num_probe |-> m.v[6].v]

\* Codebook
ser_codebook(cb) == MArray(<<ser_vectors(cb.centroids), MInt(cb.dimensions)>>)
de_codebook(m) ==
    [panic |-> FALSE, centroids |-> de_vectors(m.v[1]), dimensions |-> m.v[2].v]

\* PQCodec
ser_codec(c) ==
    MArray(<<MInt(c.num_subvectors), MInt(c.subvector_size),
             MArray(Vec([j \in 1..Len(c.codebooks) |-> ser_codebook(c.codebooks[j])]))>>)
de_codec(m) ==
    [panic |-> FALSE, num_subvectors |-> m.v[1].v, subvector_size |-> m.v[2].v,
     codebooks |-> Vec([j \in 1..Len(m.v[3].v) |-> de_codebook(m.v[3].v[j])])]

\* QuantizedVectors: codes, original_vectors (always None), codec
ser_quantized(q) == MArray(<<ser_int_lists(q.codes), MNil, ser_codec(q.codec)>>)
de_quantized(m) == [codec |-> de_codec(m.v[3]), codes |-> de_int_lists(m.v[1])]

\* IVFIndex
ser_ivf(x) ==
    MArray(<<ser_vectors(x.centroids), ser_int_lists(x.inverted_lists),
             MInt(x.num_probe), MInt(x.dimensions)>>)
de_ivf(m) ==
    [centroids |-> de_vectors(m.v[1]), inverted_lists |-> de_int_lists(m.v[2]),
     num_probe |-> m.v[3].v, dimensions |-> m.v[4].v]

\* HashMap<u32, serde_json::Value>
ser_metadata(md) == MMap([id \in DOMAIN md |-> MStr(md[id])])
de_metadata(m) == [id \in DOMAIN m.v |-> m.v[id].v]

\* What encode::write writes for the tuple save hands it.
serialize(tuple) ==
    <<FrameHeader,
      ser_config(tuple[1]),
      ser_vectors(tuple[2]),
      IF tuple[3] = None THEN MNil ELSE ser_quantized(tuple[3][1]),
      IF tuple[4] = None THEN MNil ELSE ser_ivf(tuple[4][1]),
      ser_metadata(tuple[5]),
      MInt(tuple[6]),
      MBool(tuple[7])>>

\* What from_read gives for the content of a file, read as the tuple of
\* the seven types load names: the tuple, or a decode failure when the
\* content does not begin with the frame of such a tuple.
deserialize(content) ==
    IF content[1] /= FrameHeader
    THEN [ok |-> FALSE, tuple |-> <<>>]
    ELSE [ok |-> TRUE,
          tuple |-> <<de_config(content[2]),
                      de_vectors(content[3]),
                      IF content[4].t = "nil" THEN None
                      ELSE Some(de_quantized(content[4])),
                      IF content[5].t = "nil" THEN None
                      ELSE Some(de_ivf(content[5])),
                      de_metadata(content[6]),
                      content[7].v,
                      content[8].v>>]

\* What save or load returned, with the path of the call.
PathRes(op, ret, path) ==
    [op |-> op, ret |-> ret, arg |-> <<>>, k |-> 0, expected |-> 0, got |-> 0,
     id |-> 0, hits |-> <<>>, path |-> path]

\* VectorDB::save(path): File::create, then the write of the tuple
\* (&config, &vectors, &quantized, &ivf_index, &metadata, next_id,
\* index_built).  File::create fails in a directory that does not exist
\* and nothing is written.  The write fails only when the file cannot be
\* written to, which no file here does.
VectorDB_save(path) ==
    /\ Alive
    /\ IF path = MissingDirPath
       THEN /\ result' = PathRes("save", "IoError", path)
            /\ UNCHANGED file
       ELSE /\ file' = Some(serialize(<<config, vectors, quantized, ivf_index,
                                        metadata, next_id, index_built>>))
            /\ result' = PathRes("save", "Ok", path)
    /\ UNCHANGED <<db, built_ever, ivf, ivf_call, unit>>

\* a load that builds the database with index_built: false
VectorDB_load_unbuilt(path) ==
    /\ Alive
    /\ IF path = MissingDirPath \/ file = None
       THEN /\ result' = PathRes("load", "IoError", path)
            /\ UNCHANGED db
       ELSE \E decoded \in {deserialize(file[1])} :
            IF ~decoded.ok
            THEN /\ result' = PathRes("load", "SerializationError", path)
                 /\ UNCHANGED db
            ELSE /\ config' = decoded.tuple[1]
                 /\ vectors' = decoded.tuple[2]
                 /\ quantized' = decoded.tuple[3]
                 /\ ivf_index' = decoded.tuple[4]
                 /\ metadata' = decoded.tuple[5]
                 /\ next_id' = decoded.tuple[6]
                 /\ index_built' = FALSE
                 /\ result' = PathRes("load", "Ok", path)
    /\ UNCHANGED <<built_ever, ivf, ivf_call, file, unit>>

\* VectorDB::load(path); the program goes on with the loaded database.
\* File::open fails when there is no file at the path.  The tuple read is
\* taken apart in the order (config, vectors, quantized, ivf_index,
\* metadata, next_id, index_built) and each part becomes the field of its
\* name.  A decode failure is returned through `?`; error.rs declares no
\* conversion for it, and the error taxonomy of the specification names it
\* Serialization, the variant SerializationError of KhadyotaError.
VectorDB_load(path) ==
    /\ Alive
    /\ IF path = MissingDirPath \/ file = None
       THEN /\ result' = PathRes("load", "IoError", path)
            /\ UNCHANGED db
       ELSE \E decoded \in {deserialize(file[1])} :
            IF ~decoded.ok
            THEN /\ result' = PathRes("load", "SerializationError", path)
                 /\ UNCHANGED db
            ELSE /\ config' = decoded.tuple[1]
                 /\ vectors' = decoded.tuple[2]
                 /\ quantized' = decoded.tuple[3]
                 /\ ivf_index' = decoded.tuple[4]
                 /\ metadata' = decoded.tuple[5]
                 /\ next_id' = decoded.tuple[6]
                 /\ index_built' = decoded.tuple[7]
                 /\ result' = PathRes("load", "Ok", path)
    /\ UNCHANGED <<built_ever, ivf, ivf_call, file, unit>>

\* The inserts and the searches made around save and load.  A database
\* with use_pq is filled with the bulk vectors, built with the bulk random
\* source and saved once it holds the num_centroids vectors a build needs.
\* Beside a database without PQ the Serializer writes a sidecar to the
\* path of the database file, which a load then fails to decode.
PersistInserts == {<<<<1, 0>>, None>>, <<<<0, 1>>, Some("a")>>}
PersistSearches == {<<<<1, 0>>, 1>>, <<<<1, 1>>, MaxK>>}

NextPersist ==
    \/ /\ ~config.use_pq
       /\ Len(vectors) < MaxVectors
       /\ \E input \in PersistInserts : VectorDB_insert(input[1], input[2])
    \/ /\ config.use_pq
       /\ Len(vectors) < num_centroids
       /\ VectorDB_insert(BulkVector(next_id), BulkMeta(next_id))
    \/ \E rng \in (IF config.use_pq THEN BulkRngs ELSE Rngs) : VectorDB_build_index(rng)
    \/ \E input \in PersistSearches : VectorDB_search(input[1], input[2])
    \/ /\ config.use_pq => Len(vectors) = num_centroids
       /\ \E path \in Paths : VectorDB_save(path)
    \/ \E path \in Paths : VectorDB_load(path)
    \/ /\ ~config.use_pq
       /\ \E vs \in UnwrittenLists : Serializer_save_vectors(vs, FilePath)

SpecPersist == Init /\ [][NextPersist]_vars

\* ---------------------------------------- queries on every configuration
\* Searches and batches on databases of every configuration: without PQ,
\* small ones searched linearly or through the IVF index; with PQ, the
\* bulk database of num_centroids vectors, searched through the IVF index
\* and the PQ distance table.
QuerySearches == {<< <<1, 1>>, MaxK >>, << <<1, 0>>, 1 >>}
QueryBatches ==
    {<< <<<<1, 1>>, <<1, 1>>, <<1, 1>>>>, MaxK >>,
     << <<<<1, 0>>, <<0, 1>>, <<1, 0>>>>, 1 >>}

NextQuery ==
    \/ /\ ~config.use_pq
       /\ Len(vectors) < MaxVectors
       /\ \E input \in PersistInserts : VectorDB_insert(input[1], input[2])
    \/ /\ config.use_pq
       /\ Len(vectors) < num_centroids
       /\ VectorDB_insert(BulkVector(next_id), BulkMeta(next_id))
    \/ \E rng \in (IF config.use_pq THEN BulkRngs ELSE Rngs) : VectorDB_build_index(rng)
    \/ \E input \in QuerySearches : VectorDB_search(input[1], input[2])
    \/ \E input \in QueryBatches : VectorDB_batch_search(input[1], input[2])
    \/ \E i \in InFlight : batch_search_worker(i)
    \/ batch_search_collect

SpecQuery == Init /\ [][NextQuery]_vars

\* ------------------------------------------------------ VectorDB::new
\* VectorDB::new called once with any configuration.  Until it has been
\* called there is no database: the fields hold Config::default() and the
\* empty collections.
Config_default ==
    [dimensions |-> 512, metric |-> "Cosine", use_pq |-> TRUE,
     pq_subvectors |-> 8, num_clusters |-> 100, num_probe |-> 10]

\* The configurations handed to VectorDB::new.
AllConfigs ==
    [dimensions : {0, 2},
     metric : {"Cosine", "Euclidean", "DotProduct"},
     use_pq : BOOLEAN,
     pq_subvectors : 0..3,
     num_clusters : 0..2,
     num_probe : 0..MaxProbeArg]

InitNew ==
    /\ config = Config_default
    /\ vectors = <<>>
    /\ quantized = None
    /\ ivf_index = None
    /\ metadata = <<>>
    /\ next_id = 0
    /\ index_built = FALSE
    /\ result = Res("none", "Ok", <<>>, 0, 0, 0, 0, <<>>)
    /\ built_ever = FALSE
    /\ ivf = IVFIndex_new(0, 0, 0)
    /\ ivf_call = IvfCall("none", <<>>, 0, <<>>, FALSE)
    /\ file = None
    /\ unit = NoUnit

\* VectorDB::new(config)
VectorDB_new(cfg) ==
    /\ result.op = "none"
    /\ \E v \in {validate(cfg)} :
          /\ result' = Res("new", v, cfg, 0, 0, 0, 0, <<>>)
          /\ IF v = "Ok"
             THEN /\ config' = cfg
                  /\ vectors' = <<>>
                  /\ quantized' = None
                  /\ ivf_index' = None
                  /\ metadata' = <<>>
                  /\ next_id' = 0
                  /\ index_built' = FALSE
             ELSE UNCHANGED db
    /\ UNCHANGED <<built_ever, ivf, ivf_call, file, unit>>

NextNew == \E cfg \in AllConfigs : VectorDB_new(cfg)

SpecNew == InitNew /\ [][NextNew]_vars

\* ------------------------------------------------- the facade's claims
\* C1: every successful insert leaves index_built false, a search of the
\* right length on a database whose index is not built returns
\* IndexNotBuilt, and once build_index has succeeded a search of the right
\* length succeeds.
C1_InsertInvalidatesBuildRestores ==
    /\ (result.op = "insert" /\ result.ret = "Ok") => ~index_built
    /\ (result.op = "search" /\ Len(result.arg) = config.dimensions) =>
          (IF index_built THEN result.ret = "Ok"
           ELSE result.ret = "IndexNotBuilt")

\* C2: a search whose query has the wrong length returns
\* DimensionMismatch with expected = the configured dimension and got = the
\* query's length, built or not; a search of the right length on a database
\* that was never built returns IndexNotBuilt.
C2_SearchChecks ==
    result.op = "search" =>
       /\ Len(result.arg) /= config.dimensions =>
             /\ result.ret = "DimensionMismatch"
             /\ result.expected = config.dimensions
             /\ result.got = Len(result.arg)
       /\ (Len(result.arg) = config.dimensions /\ ~built_ever) =>
             result.ret = "IndexNotBuilt"

\* a wrong-length search refused on a built index
C2_Witness ==
    /\ result.op = "search"
    /\ result.ret = "DimensionMismatch"
    /\ index_built

\* C3: an insert whose vector has the wrong length returns
\* DimensionMismatch and changes nothing: vectors, metadata, next_id and
\* index_built keep their values.
C3_RejectedInsertChangesNothing ==
    [][(result'.op = "insert" /\ Len(result'.arg) /= config.dimensions) =>
          /\ result'.ret = "DimensionMismatch"
          /\ result'.expected = config.dimensions
          /\ result'.got = Len(result'.arg)
          /\ UNCHANGED <<vectors, metadata, next_id, index_built>>]_vars

\* a wrong-length insert refused by a built database that holds metadata
C3_Witness ==
    /\ result.op = "insert"
    /\ result.ret = "DimensionMismatch"
    /\ index_built
    /\ DOMAIN metadata /= {}

\* C4: build_index on a database with no vector returns InvalidConfig and
\* changes nothing: index_built stays false, no PQ and no IVF structure is
\* installed.
C4_BuildOnEmpty ==
    [][(result'.op = "build_index" /\ Len(vectors) = 0) =>
          /\ result'.ret = "InvalidConfig"
          /\ UNCHANGED db
          /\ ~index_built'
          /\ quantized' = None
          /\ ivf_index' = None]_vars

\* build_index refused on the empty database
C4_Witness ==
    /\ result.op = "build_index"
    /\ result.ret = "InvalidConfig"
    /\ Len(vectors) = 0

\* C5: ids are dense and sequential: next_id is always the number of
\* stored vectors, the n-th successful insert returns id n (from 0) and
\* stores its vector at position n, a stored vector never moves, and a
\* failed insert takes no id.
C5_DenseIds ==
    /\ next_id = Len(vectors)
    /\ [][
          /\ next_id' = Len(vectors')
          /\ Len(vectors') >= Len(vectors)
          /\ SubSeq(vectors', 1, Len(vectors)) = vectors
          /\ (result'.op = "insert" /\ result'.ret = "Ok") =>
                /\ Len(vectors') = Len(vectors) + 1
                /\ result'.id = Len(vectors)
                /\ vectors'[result'.id + 1] = result'.arg
          /\ ~(result'.op = "insert" /\ result'.ret = "Ok") =>
                vectors' = vectors
       ]_vars

\* the third insert accepted, after a build
C5_Witness ==
    /\ result.op = "insert"
    /\ result.ret = "Ok"
    /\ result.id = 2
    /\ built_ever

\* The posting lists hold every id of 0..n-1 exactly once and nothing else.
PartitionsIds(lists, n) ==
    /\ SumSeq(Vec([c \in 1..Len(lists) |-> Len(lists[c])])) = n
    /\ \A c \in 1..Len(lists) : \A i \in 1..Len(lists[c]) :
          lists[c][i] \in 0..(n - 1)
    /\ \A id \in 0..(n - 1) :
          Cardinality({<<c, i>> \in (1..Len(lists)) \X (1..n) :
                          i <= Len(lists[c]) /\ lists[c][i] = id}) = 1

\* C6: after every successful build_index over N vectors with C clusters
\* the C posting lists partition the ids 0..N-1.
C6_ListsPartitionIds ==
    (result.op = "build_index" /\ result.ret = "Ok") =>
       /\ ivf_index /= None
       /\ Len(ivf_index[1].inverted_lists) = config.num_clusters
       /\ PartitionsIds(ivf_index[1].inverted_lists, Len(vectors))

\* a build over three vectors that fills both of its two clusters
C6_Witness ==
    /\ result.op = "build_index"
    /\ result.ret = "Ok"
    /\ Len(vectors) = 3
    /\ Len(ivf_index[1].inverted_lists) = 2
    /\ \A c \in 1..2 : Len(ivf_index[1].inverted_lists[c]) > 0

\* The ids search chooses among, in the order it scores them.
CandidateIds(query) ==
    IF ivf_index /= None /\ quantized /= None
    THEN get_candidates(ivf_index[1], probe(ivf_index[1], query))
    ELSE Ids(Len(vectors))

\* The score search gives candidate id for the query.
ScoreOf(query, id) ==
    IF ivf_index /= None /\ quantized /= None
    THEN asymmetric_distance(quantized[1].codec, query, quantized[1].codes[id + 1])
    ELSE compute_distance(query, vectors[id + 1], config.metric)

SameScore(a, b) == ~a.nan /\ ~b.nan /\ ScoreEq(a, b)

HitIds(hits) == {hits[i].id : i \in 1..Len(hits)}

\* C7: on a built database a search of the right length returns
\* min(k, number of candidates) results, each a candidate with its score,
\* in non-decreasing order of distance, and no candidate left out scores
\* less than one returned.
C7_TopKSmallest ==
    (result.op = "search" /\ Len(result.arg) = config.dimensions /\ index_built) =>
       LET cands == CandidateIds(result.arg)
           hits == result.hits
       IN /\ result.ret = "Ok"
          /\ Len(hits) = Min(result.k, Len(cands))
          /\ \A i \in 1..Len(hits) :
                /\ \E j \in 1..Len(cands) : cands[j] = hits[i].id
                /\ hits[i].distance = ScoreOf(result.arg, hits[i].id)
          /\ \A i, j \in 1..Len(hits) : i < j => hits[i].id /= hits[j].id
          /\ \A i, j \in 1..Len(hits) :
                i < j => ~ScoreLess(hits[j].distance, hits[i].distance)
          /\ \A j \in 1..Len(cands) : cands[j] \notin HitIds(hits) =>
                \A i \in 1..Len(hits) :
                   ~ScoreLess(ScoreOf(result.arg, cands[j]), hits[i].distance)

\* C8: of two candidates with equal scores the one with the lower id is
\* ranked first, and is the one kept when only one of them is returned.
C8_TiesByLowerId ==
    (result.op = "search" /\ result.ret = "Ok") =>
       LET cands == CandidateIds(result.arg)
           hits == result.hits
       IN /\ \A i, j \in 1..Len(hits) :
                (i < j /\ SameScore(hits[i].distance, hits[j].distance)) =>
                    hits[i].id < hits[j].id
          /\ \A j \in 1..Len(cands) : cands[j] \notin HitIds(hits) =>
                \A i \in 1..Len(hits) :
                   SameScore(ScoreOf(result.arg, cands[j]), hits[i].distance) =>
                       hits[i].id < cands[j]

\* ------------------------------------------------ the IVF index's claims
\* Distance from the query of the last probe to the centroid of cluster c.
ProbeDistance(c) == CentroidDistance(ivf_call.arg, ivf.centroids[c + 1])

\* Cluster a comes before cluster b in the order of probe.
ProbeBefore(a, b) ==
    \/ ScoreLess(ProbeDistance(a), ProbeDistance(b))
    \/ ScoreEq(ProbeDistance(a), ProbeDistance(b)) /\ a < b

\* C9: probe on a built index with C centroids and probe width p returns
\* min(p, C) distinct cluster ids, those of the nearest centroids, in
\* non-decreasing order of distance, equal distances by lower cluster id.
C9_ProbeNearestInOrder ==
    (ivf_call.op = "probe" /\ Len(ivf.centroids) > 0) =>
       LET out == ivf_call.out
           C == Len(ivf.centroids)
           returned == {out[i] : i \in 1..Len(out)}
       IN /\ Len(out) = Min(ivf.num_probe, C)
          /\ returned \subseteq 0..(C - 1)
          /\ \A i, j \in 1..Len(out) : i < j => ProbeBefore(out[i], out[j])
          /\ \A c \in (0..(C - 1)) \ returned :
                \A i \in 1..Len(out) : ProbeBefore(out[i], c)

\* a probe wider than the two clusters of the index that returns both,
\* cluster 1 first because its centroid is the nearer one
C9_Witness ==
    /\ ivf_call.op = "probe"
    /\ Len(ivf.centroids) = 2
    /\ ivf.num_probe = MaxProbeArg
    /\ Len(ivf_call.out) = 2
    /\ ivf_call.out[1] = 1

\* C10: set_num_probe(n) on a built index with C centroids stores 1 if
\* n = 0, C if n > C and n otherwise, and leaves the centroids and the
\* posting lists as they are.
C10_SetNumProbeClamps ==
    [][(ivf_call'.op = "set_num_probe" /\ Len(ivf.centroids) > 0) =>
          LET n == ivf_call'.n
              C == Len(ivf.centroids)
          IN /\ ivf'.num_probe = IF n = 0 THEN 1 ELSE IF n > C THEN C ELSE n
             /\ ivf'.centroids = ivf.centroids
             /\ ivf'.inverted_lists = ivf.inverted_lists]_vars

\* C11: in every state of a built index the probe width it stores, the one
\* stats() reports, is at most its number of clusters: a configured
\* num_probe above num_clusters has been clamped by the build.
C11_ProbeWidthAtMostClusters ==
    index_built =>
       /\ ivf_index /= None
       /\ stats(ivf_index[1]).num_probe <= stats(ivf_index[1]).num_clusters
       /\ stats(ivf_index[1]).num_probe <= config.num_clusters

\* The constraints on a configuration that the specification enumerates.
ViolatesConstraint(cfg) ==
    \/ cfg.dimensions = 0
    \/ cfg.use_pq /\ cfg.pq_subvectors = 0
    \/ cfg.use_pq /\ cfg.pq_subvectors /= 0 /\ cfg.dimensions % cfg.pq_subvectors /= 0
    \/ cfg.num_clusters = 0
    \/ cfg.num_probe < 1
    \/ cfg.num_probe > cfg.num_clusters

\* C12: VectorDB::new returns InvalidConfig, creating nothing, for every
\* configuration that violates an enumerated constraint, and returns an
\* empty, unbuilt database with next_id = 0 for every other one.
C12_NewValidates ==
    result.op = "new" =>
       IF ViolatesConstraint(result.arg)
       THEN /\ result.ret = "InvalidConfig"
            /\ config = Config_default
       ELSE /\ result.ret = "Ok"
            /\ config = result.arg
            /\ vectors = <<>>
            /\ quantized = None
            /\ ivf_index = None
            /\ DOMAIN metadata = {}
            /\ next_id = 0
            /\ ~index_built

\* C13: on a database built with use_pq = false a search scores every
\* stored id with the configured metric on the raw vectors, whatever
\* num_probe is, and returns the min(k, N) smallest values in ascending
\* order of the metric's value (for DotProduct the smallest products).
C13_LinearFallback ==
    (result.op = "search" /\ Len(result.arg) = config.dimensions
        /\ index_built /\ ~config.use_pq) =>
       LET N == Len(vectors)
           hits == result.hits
           value(id) == compute_distance(result.arg, vectors[id + 1], config.metric)
       IN /\ result.ret = "Ok"
          /\ Len(hits) = Min(result.k, N)
          /\ HitIds(hits) \subseteq 0..(N - 1)
          /\ Cardinality(HitIds(hits)) = Len(hits)
          /\ \A i \in 1..Len(hits) : hits[i].distance = value(hits[i].id)
          /\ \A i \in 1..(Len(hits) - 1) :
                ~ScoreLess(hits[i + 1].distance, hits[i].distance)
          /\ \A id \in (0..(N - 1)) \ HitIds(hits) : \A i \in 1..Len(hits) :
                ~ScoreLess(value(id), hits[i].distance)

\* C14: batch_search is all-or-nothing and keeps the order of the queries:
\* when every search(queries[i], k) succeeds it returns their results in
\* the order of the queries, whatever the order the workers took them in;
\* when the index is not built or some query fails it returns an error and
\* no result.
C14_BatchAllOrNothing ==
    result.op = "batch_search" =>
       LET queries == result.arg
           out(i) == search(queries[i], result.k)
           all_ok == index_built /\ \A i \in 1..Len(queries) : out(i).ret = "Ok"
       IN IF all_ok
          THEN /\ result.ret = "Ok"
               /\ Len(result.hits) = Len(queries)
               /\ \A i \in 1..Len(queries) : result.hits[i] = out(i).hits
          ELSE /\ result.ret \in {"IndexNotBuilt", "DimensionMismatch"}
               /\ result.hits = <<>>

C17_TableLookupIsAsymmetric ==
    unit.op = "table_lookup_distance" =>
      /\ unit.out = asymmetric_distance(unit.codec, unit.arg, unit.codes)
      /\ Len(unit.table) = unit.codec.num_subvectors
      /\ \A j \in 1..Len(unit.table) :
            /\ Len(unit.table[j]) = num_centroids
            /\ \A x \in 1..num_centroids :
                  unit.table[j][x] =
                    distance_to_centroid(unit.codec.codebooks[j],
                        extract_subvector(unit.arg, j - 1, unit.codec.subvector_size),
                        x - 1)
      /\ unit.out.num = SumTo(Vec([j \in 1..Len(unit.codes) |->
                                   unit.table[j][unit.codes[j] + 1]]), Len(unit.codes))

\* a lookup with two codebooks whose rows differ at the code looked up
C17_Witness ==
    /\ unit.op = "table_lookup_distance"
    /\ Len(unit.table) = 2
    /\ unit.table[1][unit.codes[2] + 1] /= unit.table[2][unit.codes[2] + 1]
    /\ unit.out.num > 0

\* C18: encoding the decoding of an encoding gives the encoding back, also
\* when a codebook holds the same centroid twice.  (Violated in a run of
\* tiny magnitude: the f32 squared distance of a decoded slice to a
\* different centroid of lower index underflows to 0.)
C18_ReencodeIsIdempotent ==
    (unit.op = "encode" /\ unit.first /= <<>>) => unit.codes = unit.first

\* C19: after a successful build with use_pq the codec has pq_subvectors
\* codebooks, each with num_centroids centroids of length
\* dimensions / pq_subvectors; there is one code per vector, the encoding of
\* that vector, of pq_subvectors bytes; decoding any code gives a vector
\* of length dimensions.
C19_PQShape ==
    (index_built /\ config.use_pq) =>
      /\ quantized /= None
      /\ LET codec == quantized[1].codec
             codes == quantized[1].codes
             M == config.pq_subvectors
         IN /\ Len(codec.codebooks) = M
            /\ codec.num_subvectors = M
            /\ codec.subvector_size * M = config.dimensions
            /\ \A j \in 1..M :
                  /\ Len(codec.codebooks[j].centroids) = num_centroids
                  /\ \A c \in 1..num_centroids :
                        Len(codec.codebooks[j].centroids[c]) * M = config.dimensions
            /\ Len(codes) = Len(vectors)
            /\ \A i \in 1..Len(vectors) :
                  /\ codes[i] = PQCodec_encode(codec, vectors[i])
                  /\ Len(codes[i]) = M
                  /\ \A j \in 1..M : codes[i][j] \in 0..255
            /\ \A c \in Codes(M) : Len(PQCodec_decode(codec, c)) = config.dimensions

\* a rebuild with two codebooks after an insert into the built database
C19_Witness ==
    /\ index_built
    /\ result.op = "build_index"
    /\ result.ret = "Ok"
    /\ config.use_pq
    /\ config.pq_subvectors = 2
    /\ Len(vectors) = num_centroids + MaxExtra
    /\ quantized /= None
    /\ Len(quantized[1].codes) = Len(vectors)

\* C20: for at least one vector, 1 <= k <= N and at least one iteration,
\* kmeans returns k centroids of the vectors' length (also when the
\* initialisation selected fewer than k), one assignment per vector, each
\* in [0, k), and as inertia the sum of the squared distances of the
\* vectors to the returned centroid they are assigned to.
C20_KMeansShape ==
    (/\ unit.op = "kmeans"
     /\ Len(unit.vectors) >= 1
     /\ 1 <= unit.k
     /\ unit.k <= Len(unit.vectors)
     /\ unit.max_iterations >= 1) =>
      /\ ~unit.out.panic
      /\ Len(unit.out.centroids) = unit.k
      /\ \A c \in 1..unit.k :
            Len(unit.out.centroids[c]) = Len(unit.vectors[1])
      /\ Len(unit.out.assignments) = Len(unit.vectors)
      /\ \A i \in 1..Len(unit.vectors) :
            unit.out.assignments[i] \in 0..(unit.k - 1)
      /\ unit.out.inertia =
            SumTo(Vec([i \in 1..Len(unit.vectors) |->
                      euclidean_distance_squared(
                          ScaleVec(unit.vectors[i]),
                          unit.out.centroids[unit.out.assignments[i] + 1])]),
                  Len(unit.vectors))

\* a call whose initialisation selected fewer than k centroids, stopped by
\* the iteration limit with a positive inertia
C20_Witness ==
    /\ unit.op = "kmeans"
    /\ unit.max_iterations = 1
    /\ unit.k = MaxVectors
    /\ unit.selected < unit.k
    /\ Len(unit.out.centroids) = unit.k
    /\ unit.out.inertia > 0

\* C21: build_index on a database that holds vectors, but fewer than
\* num_clusters (or, with use_pq, fewer than the num_centroids of a
\* codebook), returns an error value, not Ok and not an abort, and leaves
\* index_built false.
C21_TooFewVectorsIsAnError ==
    (/\ result.op = "build_index"
     /\ Len(vectors) >= 1
     /\ \/ Len(vectors) < config.num_clusters
        \/ config.use_pq /\ Len(vectors) < num_centroids) =>
      /\ result.ret \notin {"Ok", "panic"}
      /\ ~index_built

\* C22: loading the file save_vectors wrote gives back the list saved, the
\* empty list included, and the file is the count in 8 bytes, the dimension
\* in 4 bytes, then the values in 4 bytes each, vector after vector, all
\* little-endian.
C22_SidecarRoundTrip ==
    (unit.op = "load_vectors" /\ unit.path = FilePath /\ SidecarHeld /= None) =>
      /\ unit.ret = "Ok"
      /\ unit.out = SidecarHeld[1]
      /\ LET bytes == file[1]
             saved == SidecarHeld[1]
             count == Len(saved)
             dims == IF count = 0 THEN 0 ELSE Len(saved[1])
         IN /\ Len(bytes) = 12 + 4 * count * dims
            /\ SubSeq(bytes, 1, 8) = to_le_bytes(count, 8)
            /\ SubSeq(bytes, 9, 12) = to_le_bytes(dims, 4)
            /\ \A i \in 1..count : \A j \in 1..dims :
                  SubSeq(bytes, 12 + 4 * ((i - 1) * dims + (j - 1)) + 1,
                         12 + 4 * ((i - 1) * dims + (j - 1)) + 4)
                    = f32_to_le_bytes(saved[i][j])

\* C23: in every update step of kmeans a cluster without assignments gets a
\* copy of a training vector and a cluster with assignments gets the mean
\* of the vectors assigned to it; every centroid returned is a training
\* vector or the mean of a non-empty set of training vectors.
C23_EmptyClustersReseeded ==
    (unit.op = "kmeans" /\ ~unit.out.panic) =>
      LET vs == unit.vectors
          n == Len(vs)
          d == Len(vs[1])
          IsTrainingVector(c) == \E i \in 1..n : c = ScaleVec(vs[i])
          IsMeanOf(c, members) ==
              /\ members /= {}
              /\ Len(c) = d
              /\ \A j \in 1..d :
                    c[j] * Cardinality(members) =
                      Scale * SumTo(Vec([i \in 1..n |->
                                        IF i \in members THEN vs[i][j] ELSE 0]), n)
      IN /\ \A s \in 1..Len(unit.steps) :
               /\ Len(unit.steps[s].centroids) = unit.k
               /\ \A c \in 1..unit.k :
                     LET members == {i \in 1..n : unit.steps[s].assignments[i] = c - 1}
                     IN IF members = {}
                        THEN IsTrainingVector(unit.steps[s].centroids[c])
                        ELSE IsMeanOf(unit.steps[s].centroids[c], members)
         /\ Len(unit.steps) > 0 =>
               unit.out.centroids = unit.steps[Len(unit.steps)].centroids
         /\ \A c \in 1..Len(unit.out.centroids) :
               \/ IsTrainingVector(unit.out.centroids[c])
               \/ \E members \in SUBSET (1..n) : IsMeanOf(unit.out.centroids[c], members)

\* an update step with a cluster that got nothing and a cluster whose mean
\* is no training vector
C23_Witness ==
    /\ unit.op = "kmeans"
    /\ ~unit.out.panic
    /\ \E s \in 1..Len(unit.steps) :
          /\ EmptyClusters(unit.k, unit.steps[s].assignments) /= {}
          /\ \E c \in 1..unit.k :
                \A i \in 1..Len(unit.vectors) :
                   unit.steps[s].centroids[c] /= ScaleVec(unit.vectors[i])

\* C24: on a database built with use_pq the metric plays no role in search:
\* the distance of every hit is the square root of the sum of the table
\* entries of the hit's stored code, and the same database under any other
\* metric setting gives the same hits.
C24_MetricIgnoredWithPQ ==
    (/\ result.op = "search"
     /\ result.ret = "Ok"
     /\ config.use_pq) =>
      /\ quantized /= None
      /\ LET table == precompute_distance_table(quantized[1].codec, result.arg)
         IN \A h \in 1..Len(result.hits) :
               result.hits[h].distance =
                 Score(SumTo(Vec([j \in 1..Len(table) |->
                              table[j][quantized[1].codes[result.hits[h].id + 1][j] + 1]]),
                             Len(table)),
                       Scale * Scale)
      /\ \A metric \in Metrics :
            \E r \in {search_built_with(metric, result.arg, result.k)} :
               ~r.panic /\ r.hits = result.hits

\* a Cosine database built with use_pq answers the zero query, for which
\* the cosine distance is undefined, with a positive distance
C24_Witness ==
    /\ result.op = "search"
    /\ result.ret = "Ok"
    /\ config.use_pq
    /\ config.metric = "Cosine"
    /\ result.arg = <<0, 0>>
    /\ Len(result.hits) = MaxK
    /\ result.hits[1].distance.num > 0

\* C25: metadata keys are ids below next_id; an accepted insert stores
\* exactly the metadata it was given under the id it returns, and nothing
\* when it was given none; no other call changes the metadata, and no
\* entry is ever changed or removed; every hit of a search carries the
\* entry of its id, or none when its id has no entry.  Hence a hit for id
\* i carries exactly what the insert that returned i was given.
C25_MetadataAttached ==
    /\ \A i \in DOMAIN metadata : i \in 0..(next_id - 1)
    /\ [][
          /\ \A i \in DOMAIN metadata' : i \in 0..(next_id' - 1)
          /\ \A i \in DOMAIN metadata :
                i \in DOMAIN metadata' /\ metadata'[i] = metadata[i]
          /\ (result'.op = "insert" /\ result'.ret = "Ok") =>
                /\ result'.id \notin DOMAIN metadata
                /\ IF result'.meta = None
                   THEN DOMAIN metadata' = DOMAIN metadata
                   ELSE /\ DOMAIN metadata' = DOMAIN metadata \cup {result'.id}
                        /\ metadata'[result'.id] = result'.meta[1]
          /\ ~(result'.op = "insert" /\ result'.ret = "Ok") =>
                DOMAIN metadata' = DOMAIN metadata
          /\ (result'.op = "search" /\ result'.ret = "Ok") =>
                \A h \in 1..Len(result'.hits) :
                   result'.hits[h].metadata =
                     IF result'.hits[h].id \in DOMAIN metadata
                     THEN <<metadata[result'.hits[h].id]>> ELSE <<>>
          /\ (result'.op = "batch_search" /\ result'.ret = "Ok") =>
                \A q \in 1..Len(result'.hits) : \A h \in 1..Len(result'.hits[q]) :
                   result'.hits[q][h].metadata =
                     IF result'.hits[q][h].id \in DOMAIN metadata
                     THEN <<metadata[result'.hits[q][h].id]>> ELSE <<>>
       ]_vars

\* a search whose hits are an id inserted without metadata and an id
\* inserted with some, the first of them with none
C25_Witness ==
    /\ result.op = "search"
    /\ result.ret = "Ok"
    /\ Len(result.hits) = 2
    /\ 0 \notin DOMAIN metadata
    /\ \E h \in 1..2 : result.hits[h].id = 0 /\ result.hits[h].metadata = None
    /\ \E h \in 1..2 : result.hits[h].metadata = Some("a")

\* C26: the distance of a vector to itself is zero, for the cosine and for
\* the Euclidean distance, the zero vector included.  A cosine distance is
\* zero when its key num/den is -1.
C26_SelfDistanceZero ==
    (/\ unit.op = "compute_distance"
     /\ unit.a = unit.b
     /\ unit.metric \in {"Cosine", "Euclidean"}) =>
      /\ ~unit.out.nan
      /\ unit.metric = "Euclidean" => unit.out.num = 0
      /\ unit.metric = "Cosine" => unit.out.num = 0 - unit.out.den

\* C27: whenever index_built holds, an IVF index is present whose posting
\* lists hold exactly the ids of the vectors stored now, and with use_pq
\* the quantized storage is present with one code per vector stored now;
\* structures that do not fit the stored vectors are met only while
\* index_built is false.
C27_BuiltMeansConsistent ==
    LET fits ==
          /\ ivf_index /= None
          /\ PartitionsIds(ivf_index[1].inverted_lists, Len(vectors))
          /\ config.use_pq =>
                /\ quantized /= None
                /\ Len(quantized[1].codes) = Len(vectors)
    IN /\ index_built => fits
       /\ ~fits => ~index_built

\* a search on an index built again, with use_pq, after an insert had
\* left the structures of the first build stale
C27_Witness ==
    /\ index_built
    /\ result.op = "search"
    /\ result.ret = "Ok"
    /\ config.use_pq
    /\ config.pq_subvectors = 1
    /\ Len(vectors) = num_centroids + MaxExtra
    /\ Len(quantized[1].codes) = num_centroids + MaxExtra

\* C28: on return from kmeans every vector is assigned to a nearest of the
\* returned centroids, whether the loop stopped on the convergence check
\* or ran out of iterations.
C28_AssignmentsAreNearest ==
    (unit.op = "kmeans" /\ ~unit.out.panic) =>
      \A i \in 1..Len(unit.vectors) :
         \A c \in 1..Len(unit.out.centroids) :
            euclidean_distance_squared(
                ScaleVec(unit.vectors[i]),
                unit.out.centroids[unit.out.assignments[i] + 1])
            <= euclidean_distance_squared(ScaleVec(unit.vectors[i]),
                                          unit.out.centroids[c])

\* C29: a search on a built database with a query of the configured length
\* never aborts: it returns Ok, also when a score is undefined (a cosine
\* distance to or from the all-zero vector on the linear path).
C29_SearchNeverAborts ==
    (result.op = "search" /\ index_built /\ Len(result.arg) = config.dimensions)
       => result.ret = "Ok"

\* C30: with use_pq = true and num_probe >= num_clusters, a search on a
\* built database with a query of the configured length probes every
\* cluster: the candidate sequence holds every id 0..N-1 exactly once, and
\* the search returns Ok with exactly min(k, N) results whose ids are
\* pairwise distinct and below N.
C30_FullProbingLosesNoCandidate ==
    (/\ result.op = "search"
     /\ Len(result.arg) = config.dimensions
     /\ index_built
     /\ config.use_pq
     /\ config.num_probe >= config.num_clusters) =>
       /\ ivf_index /= None
       /\ quantized /= None
       /\ result.ret = "Ok"
       /\ LET N == Len(vectors)
              cands == get_candidates(ivf_index[1], probe(ivf_index[1], result.arg))
              hits == result.hits
          IN /\ Len(cands) = N
             /\ \A id \in 0..(N - 1) :
                   Cardinality({j \in 1..Len(cands) : cands[j] = id}) = 1
             /\ Len(hits) = Min(result.k, N)
             /\ \A i \in 1..Len(hits) : hits[i].id \in 0..(N - 1)
             /\ \A i, j \in 1..Len(hits) : i < j => hits[i].id /= hits[j].id

\* a fully probing search over the vectors of a PQ build, spread over two
\* posting lists, that returns fewer results than there are vectors
C30_Witness ==
    /\ result.op = "search"
    /\ result.ret = "Ok"
    /\ index_built
    /\ config.use_pq
    /\ config.num_probe >= config.num_clusters
    /\ Len(vectors) >= num_centroids
    /\ ivf_index /= None
    /\ \A c \in 1..Len(ivf_index[1].inverted_lists) :
          Len(ivf_index[1].inverted_lists[c]) > 0
    /\ Len(ivf_index[1].inverted_lists) >= 2
    /\ result.k = MaxK
    /\ Len(result.hits) = MaxK

====
